---- MODULE Spec2Model ----
(***************************************************************************)
(* Semantic response cache for LLM calls (ai-sdk-memory / ai-sdk-embed).   *)
(*                                                                         *)
(* The model follows the two middleware variants                           *)
(*   createSemanticCache  (prompt variant, ids "llm:...")                  *)
(*   createIntentMemory   (intent variant, ids "intent:...")               *)
(* request by request: fingerprint, embed, index query, candidate          *)
(* selection, payload get, then either replay or the live provider call    *)
(* with capture and the lock-protected write-back to the two stores.       *)
(*                                                                         *)
(* Text is a sequence of pieces (words and single whitespace characters),  *)
(* so that norm acts on it as the code's regular expressions do; hashes,   *)
(* JSON texts and ids are strings built by concatenation.  sha is kept    *)
(* injective (no collisions).                                              *)
(***************************************************************************)
EXTENDS Integers, Sequences, FiniteSets, TLC

\* ------------------------------------------------------------------------
\* State
\* ------------------------------------------------------------------------

VARIABLES
    variant,    \* "llm" (createSemanticCache), "intent" (createIntentMemory) or
                \* "pkg" (createSemanticCache of the ai-sdk-embed package)
    cacheMode,  \* the instance's cacheMode
    req,        \* per request: position and locals of wrapStream / wrapGenerate
    kv,         \* payload store: id -> payload JSON
    locks,      \* payload store: the "lock:" keys that are set
    index,      \* vector index: id -> [vector, metadata]
    prov,       \* history: id -> the call and data of the write that set kv[id]
    factory,    \* the call of createSemanticCache / createIntentMemory: its
                \* argument, the environment, its position and its outcome
    text        \* a string handed to norm: the string, norm of it, and norm
                \* of that

vars == <<variant, cacheMode, req, kv, locks, index, prov, factory, text>>

\* ------------------------------------------------------------------------
\* Bounds of the model
\* ------------------------------------------------------------------------

\* longest stream the provider emits before it ends
MaxChunks == 3

\* payloads that may be past their ttl at one time
MaxExpired == 1

\* Longest string, in pieces, handed to norm
MaxLen == 4

\* the requests: r1 makes the base call; r2 repeats r1's call while r1 is in
\* flight, or makes any call once r1 has ended
Requests == {"r1", "r2"}

\* ------------------------------------------------------------------------
\* Program constants
\* ------------------------------------------------------------------------

\* threshold default 0.92, in hundredths
Threshold == 92

\* index.query({ topK: 3 })
TopK == 3

\* ------------------------------------------------------------------------
\* JavaScript values
\* ------------------------------------------------------------------------

Undefined == "undefined"

Null == [null |-> TRUE]

Truthy(v) == v # Null

\* timestamps: absent, a Date object, or the ISO string JSON turns a Date into
NoTs == [ts |-> "none", iso |-> ""]

TsDate(iso) == [ts |-> "date", iso |-> iso]

TsString(iso) == [ts |-> "string", iso |-> iso]

\* new Date(x) for a Date or an ISO string
NewDate(t) == TsDate(t.iso)

\* ------------------------------------------------------------------------
\* Text, norm, sha
\* ------------------------------------------------------------------------

Whitespace == {" ", "\t", "\n"}

LowerOf == [p \in {"Object]", "Explain", "Deploy", "AI", "What"} |->
    CASE p = "Object]" -> "object]"
      [] p = "Explain" -> "explain"
      [] p = "Deploy" -> "deploy"
      [] p = "AI" -> "ai"
      [] p = "What" -> "what"]

\* String.prototype.toLowerCase, piece by piece
ToLowerCase(s) == [i \in 1..Len(s) |-> IF s[i] \in DOMAIN LowerOf THEN LowerOf[s[i]] ELSE s[i]]

RECURSIVE TrimStart(_)
TrimStart(s) == IF s # <<>> /\ Head(s) \in Whitespace THEN TrimStart(Tail(s)) ELSE s

RECURSIVE TrimEnd(_)
TrimEnd(s) ==
    IF s # <<>> /\ s[Len(s)] \in Whitespace THEN TrimEnd(SubSeq(s, 1, Len(s) - 1)) ELSE s

\* a trim that removes nothing
Trim_None(s) == s

\* String.prototype.trim
Trim(s) == TrimEnd(TrimStart(s))

\* replace(/\s+/g, " "): every maximal run of whitespace becomes one space
RECURSIVE CollapseWhitespace(_)
CollapseWhitespace(s) ==
    IF s = <<>> THEN <<>>
    ELSE IF Head(s) \in Whitespace
         THEN <<" ">> \o CollapseWhitespace(TrimStart(s))
         ELSE <<Head(s)>> \o CollapseWhitespace(Tail(s))

\* const norm = (s) => s.trim().toLowerCase().replace(/\s+/g, " ")
norm(s) == CollapseWhitespace(ToLowerCase(Trim(s)))

\* the string a text stands for
RECURSIVE Flat(_)
Flat(s) == IF s = <<>> THEN "" ELSE Head(s) \o Flat(Tail(s))

\* sha256 hex digest, collision-free
sha(str) == "sha256(" \o str \o ")"

\* ------------------------------------------------------------------------
\* Calls: what the application passes to streamText / generateText
\* ------------------------------------------------------------------------

MsgExplain == [role |-> "user",
    content |-> [kind |-> "string", text |-> <<"Explain", " ", "agents">>]]

MsgDeploy == [role |-> "user",
    content |-> [kind |-> "string", text |-> <<"Deploy", " ", "pipelines">>]]

BaseCall == [model |-> "gpt-a", system |-> Undefined, temperature |-> "0.2",
    topP |-> Undefined, tools |-> Undefined, messages |-> <<MsgExplain>>]

\* the base call and one call differing from it in each single option
Calls == {BaseCall,
    [BaseCall EXCEPT !.model = "gpt-b"],
    [BaseCall EXCEPT !.system = "Be brief"],
    [BaseCall EXCEPT !.temperature = "0.7"],
    [BaseCall EXCEPT !.topP = "0.9"],
    [BaseCall EXCEPT !.tools = "provideLinks"],
    [BaseCall EXCEPT !.messages = <<MsgDeploy>>]}

Ops == {"stream", "generate"}

\* The params the framework hands to wrapStream / wrapGenerate
\* (LanguageModelV2CallOptions): the system prompt is the first message of
\* params.prompt, message texts are content parts, and the record has
\* neither a model nor a system nor a messages field.
ToParams(call) ==
    [prompt |->
        (IF call.system = Undefined THEN <<>>
         ELSE <<[role |-> "system", content |-> [kind |-> "string", text |-> <<call.system>>]]>>)
        \o [i \in 1..Len(call.messages) |->
              [role |-> call.messages[i].role,
               content |-> [kind |-> "parts", text |-> call.messages[i].content.text]]],
     temperature |-> call.temperature,
     topP |-> call.topP,
     tools |-> call.tools]

\* options.f, undefined when the object has no such property
Prop(options, f) == IF f \in DOMAIN options THEN options[f] ELSE Undefined

\* v ?? d
Nullish(v, d) == IF v = Undefined THEN d ELSE v

\* JSON.stringify({ temperature, topP }): undefined properties are left out
JsonParams(temperature, topP) ==
    "{"
    \o (IF temperature = Undefined THEN "" ELSE "\"temperature\":" \o temperature)
    \o (IF temperature # Undefined /\ topP # Undefined THEN "," ELSE "")
    \o (IF topP = Undefined THEN "" ELSE "\"topP\":" \o topP)
    \o "}"

\* JSON.stringify(options.tools ?? {})
JsonTools(tools) ==
    IF tools = Undefined THEN "{}" ELSE "[{\"name\":\"" \o tools \o "\"}]"

\* a scope that leaves temperature and topP out of its params hash
buildScope_NoParams(options) ==
    [llmModel |-> Nullish(Prop(options, "model"), ""),
     systemHash |-> sha(Nullish(Prop(options, "system"), "")),
     params |-> sha("{}"),
     toolsHash |-> sha(JsonTools(Prop(options, "tools")))]

\* function buildScope(options)
buildScope(options) ==
    [llmModel |-> Nullish(Prop(options, "model"), ""),
     systemHash |-> sha(Nullish(Prop(options, "system"), "")),
     params |-> sha(JsonParams(Prop(options, "temperature"), Prop(options, "topP"))),
     toolsHash |-> sha(JsonTools(Prop(options, "tools")))]

\* Object.values(scope).join("|")
promptScope(scope) ==
    scope.llmModel \o "|" \o scope.systemHash \o "|" \o scope.params \o "|" \o scope.toolsHash

\* prefix + sha(promptScope + "|" + norm text)
CacheId(prefix, scope, T) == prefix \o sha(promptScope(scope) \o "|" \o Flat(T))

\* typeof content === "string" ? content : JSON.stringify(content)
ContentString(content) ==
    IF content.kind = "string" THEN content.text
    ELSE <<"[{\"type\":\"text\",\"text\":\"">> \o content.text \o <<"\"}]">>

\* JSON.stringify({ role, content })
JsonMessage(m) ==
    <<"{\"role\":\"" \o m.role \o "\",\"content\":\"">> \o ContentString(m.content) \o <<"\"}">>

RECURSIVE JoinWith(_, _)
JoinWith(texts, sep) ==
    IF texts = <<>> THEN <<>>
    ELSE IF Len(texts) = 1 THEN texts[1]
    ELSE texts[1] \o <<sep>> \o JoinWith(Tail(texts), sep)

\* JSON.stringify(canonicalizeMessages(msgs))
canonicalizeMessages(msgs) ==
    <<"[">> \o JoinWith([i \in 1..Len(msgs) |-> JsonMessage(msgs[i])], ",") \o <<"]">>

\* String(array of objects): "[object Object]" joined by ","
StringOfArray(arr) ==
    JoinWith([i \in 1..Len(arr) |-> <<"[object", " ", "Object]">>], ",")

\* useFullMessages default
UseFullMessages == FALSE

\* prompt variant: getCacheKey(options)
getCacheKey(options) ==
    IF "messages" \in DOMAIN options
    THEN IF ~UseFullMessages /\ Len(options.messages) > 0
         THEN JsonMessage(options.messages[Len(options.messages)])
         ELSE canonicalizeMessages(options.messages)
    ELSE IF "prompt" \in DOMAIN options
         THEN StringOfArray(options.prompt)
         ELSE <<>>

\* ------------------------------------------------------------------------
\* Intent variant: extraction and intent string
\* ------------------------------------------------------------------------

IntentExplain == [intent |-> <<"Explain", " ", "agents">>, domain |-> << <<"AI">> >>,
    stack |-> <<>>, goal |-> <<"Explain", " ", "agents">>, constraints |-> <<>>]

IntentDeploy == [intent |-> <<"Deploy", " ", "pipelines">>, domain |-> <<>>,
    stack |-> <<>>, goal |-> <<"Deploy", " ", "pipelines">>, constraints |-> <<>>]

\* what the extractor LLM call can come back with for a conversation: the
\* JSON of its intent, a JSON object that names the intent and the goal and
\* nothing else, or a reply that cannot be used (rejection, no JSON, JSON
\* that does not parse)
ExtractorReplies(messages) ==
    LET last == messages[Len(messages)].content.text
    IN  {[kind |-> "json",
          extracted |-> IF Head(last) = "Deploy" THEN IntentDeploy ELSE IntentExplain],
         [kind |-> "json", extracted |-> [intent |-> last, goal |-> last]],
         [kind |-> "error", extracted |-> Null]}

\* the catch block's fallback built from the last message
FallbackIntent(messages) ==
    LET content == ContentString(messages[Len(messages)].content)
    IN  [intent |-> content, domain |-> <<>>, stack |-> <<>>, goal |-> content,
         constraints |-> <<>>]

\* ...extracted.domain, ...extracted.stack and ...extracted.constraints do
\* not throw: each property is there to be spread
Spreadable(extracted) == {"domain", "stack", "constraints"} \subseteq DOMAIN extracted

\* whether the instance was configured with an onStepFinish callback (it is
\* optional); without one the arguments of onStepFinish?.(...) are not
\* evaluated
OnStepFinishGiven == factory.onStepFinish

\* extractIntent's return value for a reply: JSON.parse's object as it is
\* (the cast checks nothing); the fallback when generateText, the match or
\* JSON.parse threw, or when the callback's argument buildIntentString(...)
\* threw inside the try
extractIntent(messages, reply) ==
    IF reply.kind = "json" /\ (Spreadable(reply.extracted) \/ ~OnStepFinishGiven)
    THEN reply.extracted
    ELSE FallbackIntent(messages)

\* [goal, ...domain, ...stack, ...constraints].filter(Boolean).join(" ")
buildIntentString(extracted) ==
    LET parts == <<extracted.goal>> \o extracted.domain \o extracted.stack
                 \o extracted.constraints
    IN  JoinWith(SelectSeq(parts, LAMBDA t : t # <<>>), " ")

\* ------------------------------------------------------------------------
\* Embedding model and vector index (collaborators)
\* ------------------------------------------------------------------------

\* embed({ model, value }): the vector of a text
Embed(T) == [of |-> T]

Words(T) == {T[i] : i \in 1..Len(T)} \ Whitespace

\* cosine similarity of two vectors, in hundredths: 100 for the same text,
\* lower the fewer words the two texts share
Score(v, w) ==
    LET common == Cardinality(Words(v.of) \cap Words(w.of))
        all == Cardinality(Words(v.of) \cup Words(w.of))
    IN  IF v = w THEN 100
        ELSE IF common > 0 /\ 2 * common >= all THEN 99
        ELSE IF common > 0 THEN 92
        ELSE 85

\* ------------------------------------------------------------------------
\* Stream chunks, provider responses, payloads
\* ------------------------------------------------------------------------

Chunk(type) == [type |-> type, id |-> Undefined, delta |-> Undefined,
    timestamp |-> NoTs, finishReason |-> Undefined, usage |-> Undefined]

TextDelta(id, delta) == [Chunk("text-delta") EXCEPT !.id = id, !.delta = delta]

\* a full provider stream, and one with a chunk type the middleware does not
\* know and no finish chunk
StreamHello == <<[Chunk("response-metadata") EXCEPT !.timestamp = TsDate("2025-01-01T00:00:00.000Z")],
    TextDelta("1", "Hel"), TextDelta("1", "lo"),
    [Chunk("finish") EXCEPT !.finishReason = "stop", !.usage = "12 tokens"]>>

StreamRaw == <<TextDelta("1", "Hi"), [Chunk("raw") EXCEPT !.delta = "x"]>>

Min(a, b) == IF a < b THEN a ELSE b

\* the streams doStream can produce, cut at MaxChunks chunks
ProviderStreams == {SubSeq(st, 1, Min(Len(st), MaxChunks)) : st \in {StreamHello, StreamRaw}}

\* the results doGenerate can produce
ProviderResults == {
    [content |-> "Hello", response |-> [timestamp |-> TsDate("2025-01-01T00:00:00.000Z")]],
    [content |-> "Hi", response |-> [timestamp |-> NoTs]]}

\* JSON round trip through the payload store: a Date comes back as a string
SerializeTs(t) == IF t.ts = "date" THEN TsString(t.iso) ELSE t

Serialize(data) ==
    IF "streamParts" \in DOMAIN data
    THEN [data EXCEPT !.streamParts =
            [i \in 1..Len(@) |-> [@[i] EXCEPT !.timestamp = SerializeTs(@)]]]
    ELSE IF "response" \in DOMAIN data
    THEN [data EXCEPT !.response.timestamp = SerializeTs(@)]
    ELSE data

\* p.timestamp as a condition
TsTruthy(t) == t.ts = "date" \/ (t.ts = "string" /\ t.iso # "")

\* a replay that hands out the stored part as it is
RehydrateChunk_Never(p) == p

\* the map callback of the replay path
RehydrateChunk(p) ==
    IF p.type = "response-metadata" /\ TsTruthy(p.timestamp)
    THEN [p EXCEPT !.timestamp = NewDate(@)]
    ELSE p

\* the chunks wrapStream replays for a cached payload
ReplayChunks(cached) ==
    IF "streamParts" \in DOMAIN cached
    THEN [i \in 1..Len(cached.streamParts) |-> RehydrateChunk(cached.streamParts[i])]
    ELSE IF "text" \in DOMAIN cached /\ cached.text # ""
    THEN <<[Chunk("text-start") EXCEPT !.id = Prop(cached, "id")],
           [Chunk("text-delta") EXCEPT !.id = Prop(cached, "id"), !.delta = cached.text],
           [Chunk("finish") EXCEPT !.finishReason = "stop", !.usage = Prop(cached, "usage")]>>
    ELSE <<>>

\* a wrapGenerate that returns the payload as it was read
ReplayResult_AsStored(cached) == cached

\* what wrapGenerate returns for a cached payload
ReplayResult(cached) ==
    IF "response" \in DOMAIN cached /\ TsTruthy(cached.response.timestamp)
    THEN [cached EXCEPT !.response.timestamp = NewDate(@)]
    ELSE cached

\* concatenation of the text-delta chunks of a stream
RECURSIVE TextOf(_)
TextOf(chunks) ==
    IF chunks = <<>> THEN ""
    ELSE (IF Head(chunks).type = "text-delta" THEN Head(chunks).delta ELSE "")
         \o TextOf(Tail(chunks))

\* ------------------------------------------------------------------------
\* Lookup policy
\* ------------------------------------------------------------------------

\* a find callback without the score test
Qualifies_NoThreshold(m, scope) ==
    /\ m.metadata # Null
    /\ Prop(m.metadata, "llmModel") = scope.llmModel
    /\ Prop(m.metadata, "systemHash") = scope.systemHash
    /\ Prop(m.metadata, "params") = scope.params
    /\ Prop(m.metadata, "toolsHash") = scope.toolsHash

\* a find callback that does not compare the tools hash
Qualifies_NoTools(m, scope) ==
    /\ ~(m.score < Threshold)
    /\ m.metadata # Null
    /\ Prop(m.metadata, "llmModel") = scope.llmModel
    /\ Prop(m.metadata, "systemHash") = scope.systemHash
    /\ Prop(m.metadata, "params") = scope.params

\* the callback of result.find
Qualifies(m, scope) ==
    /\ ~(m.score < Threshold)
    /\ m.metadata # Null
    /\ Prop(m.metadata, "llmModel") = scope.llmModel
    /\ Prop(m.metadata, "systemHash") = scope.systemHash
    /\ Prop(m.metadata, "params") = scope.params
    /\ Prop(m.metadata, "toolsHash") = scope.toolsHash

\* a find that never returns a candidate
find_None(result, scope) == Null

\* a find that returns the last qualifying candidate
find_Last(result, scope) ==
    LET found == {i \in 1..Len(result) : Qualifies(result[i], scope)}
    IN  IF found = {} THEN Null
        ELSE result[CHOOSE i \in found : \A j \in found : i >= j]

\* result.find(...): the first qualifying candidate, or Null

find(result, scope) ==
    LET found == {i \in 1..Len(result) : Qualifies(result[i], scope)}
    IN  IF found = {} THEN Null
        ELSE result[CHOOSE i \in found : \A j \in found : i <= j]

\* ------------------------------------------------------------------------
\* Instance and requests
\* ------------------------------------------------------------------------

Variants == {"llm", "intent"}

CacheModes == {"default", "refresh"}

Prefix == IF variant = "intent" THEN "intent:" ELSE "llm:"

IdleRequest == [pc |-> "idle", call |-> Null, op |-> "none", extracted |-> Null,
    cacheInput |-> <<>>, queryResult |-> <<>>, hit |-> Null, cached |-> Null,
    source |-> Null, provider |-> <<>>, fullResponse |-> <<>>, delivered |-> <<>>,
    genResult |-> Null, returned |-> Null, ok |-> "none", storeError |-> FALSE,
    calledProvider |-> FALSE, didSet |-> FALSE, didUpsert |-> FALSE, didDel |-> FALSE,
    overlaps |-> FALSE, wb |-> "none", model |-> <<>>, events |-> <<>>]

\* onStepFinish?.({ step, ... }): the steps the callback of the intent
\* variant is given during a request, in order
Emit(rec, steps) ==
    IF OnStepFinishGiven /\ variant = "intent" THEN [rec EXCEPT !.events = @ \o steps]
    ELSE rec

\* an extractIntent that reports nothing when the extractor call has settled
ExtractionEnd_None(reply) == <<>>

\* the step extractIntent reports when the extractor call has settled: the
\* end of its try block, or its catch block
ExtractionEnd(reply) ==
    IF reply.kind = "json" /\ Spreadable(reply.extracted)
    THEN <<"intent-extraction-complete">>
    ELSE <<"intent-extraction-error">>

\* the steps the callback of result.find reports: one "cache-check-start" for
\* each candidate it is run on, up to the first one it accepts
FindSteps(result, scope) ==
    LET found == {i \in 1..Len(result) : Qualifies(result[i], scope)}
        n == IF found = {} THEN Len(result)
             ELSE CHOOSE i \in found : \A j \in found : i <= j
    IN  [i \in 1..n |-> "cache-check-start"]

\* const scope = buildScope(params) in the middleware variants,
\* buildScope(options) in the ai-sdk-embed package
ScopeOf(r) ==
    IF variant = "pkg" THEN buildScope(req[r].call) ELSE buildScope(ToParams(req[r].call))

\* promptNorm / intentNorm
NormOf(r) == norm(req[r].cacheInput)

\* an id that also depends on which request computes it
IdOf_PerRequest(r) == CacheId(Prefix, ScopeOf(r), NormOf(r)) \o "#" \o r

\* const id = prefix + sha(promptScope + "|" + promptNorm)
IdOf(r) == CacheId(Prefix, ScopeOf(r), NormOf(r))

LockKey(id) == "lock:" \o id

\* a write-back that stores an empty capture
DataOf_Nothing(r) == [streamParts |-> <<>>]

\* the payload a write-back stores
DataOf(r) ==
    IF req[r].op \in {"stream", "streamObject"} THEN [streamParts |-> req[r].fullResponse]
    ELSE IF req[r].op = "streamText"
    THEN [streamParts |-> req[r].fullResponse, text |-> TextOf(req[r].fullResponse)]
    ELSE req[r].genResult

\* metadata of the upserted index entry
MetadataOf(r) ==
    LET scope == ScopeOf(r)
        e == req[r].extracted
    IN  IF variant # "intent"
        THEN [prompt |-> Flat(NormOf(r)), llmModel |-> scope.llmModel,
              systemHash |-> scope.systemHash, params |-> scope.params,
              toolsHash |-> scope.toolsHash]
        ELSE IF e = Null
        THEN [intent |-> Flat(NormOf(r)), llmModel |-> scope.llmModel,
              systemHash |-> scope.systemHash, params |-> scope.params,
              toolsHash |-> scope.toolsHash]
        ELSE [intent |-> Flat(NormOf(r)), domain |-> Flat(JoinWith(e.domain, ",")),
              stack |-> Flat(JoinWith(e.stack, ",")), goal |-> Flat(e.goal),
              llmModel |-> scope.llmModel, systemHash |-> scope.systemHash,
              params |-> scope.params, toolsHash |-> scope.toolsHash]

\* index.query({ vector, topK: 3, includeMetadata: true }): the TopK entries
\* nearest to the vector, by descending score (ties in any order)
QueryResults(idx, vector) ==
    LET ids == DOMAIN idx
        k == Min(TopK, Cardinality(ids))
        sc(x) == Score(vector, idx[x].vector)
        picks == {f \in [1..k -> ids] :
                    /\ \A i, j \in 1..k : i < j => f[i] # f[j] /\ sc(f[i]) >= sc(f[j])
                    /\ \A x \in ids : (\A i \in 1..k : f[i] # x) =>
                          \A i \in 1..k : sc(x) <= sc(f[i])}
    IN  {[i \in 1..k |-> [id |-> f[i], score |-> sc(f[i]), metadata |-> idx[f[i]].metadata]]
            : f \in picks}

\* ------------------------------------------------------------------------
\* The factory: schema.parse(config), validateEnvConfig(parsed), the clients
\* ------------------------------------------------------------------------

\* config.vector / config.redis left out
Omitted == [omitted |-> TRUE]

UrlInputs == {Undefined, "", "not a url", "https://db.example"}

TokenInputs == {Undefined, "", "tok"}

\* what the caller can pass for one store
StoreInputs == {Omitted} \cup [url : UrlInputs, token : TokenInputs]

Configs == [vector : StoreInputs, redis : StoreInputs]

\* process.env when the schema module is loaded
Envs == [VECTOR_REST_URL : {Undefined, "https://vector.env"},
         VECTOR_REST_TOKEN : {Undefined, "vtok"},
         REDIS_REST_URL : {Undefined, "https://redis.env"},
         REDIS_REST_TOKEN : {Undefined, "rtok"}]

\* z.url(): the string parses as a URL
IsUrl(u) == u \in {"https://db.example", "https://vector.env", "https://redis.env"}

\* z.string().min(1)
IsToken(t) == t # Undefined /\ t # ""

\* !value
Falsy(v) == v = Undefined \/ v = ""

\* the issues z.object({ url: z.url(), token: z.string().min(1) }) raises for
\* a store given explicitly; .optional().default(...) hands out the default
\* for a store left out and raises nothing
StoreIssues(name, given) ==
    IF given = Omitted THEN {}
    ELSE (IF IsUrl(given.url) THEN {} ELSE {name \o ".url"})
         \cup (IF IsToken(given.token) THEN {} ELSE {name \o ".token"})

\* the value of config.vector / config.redis after parse
StoreParsed(given, envUrl, envToken) ==
    IF given = Omitted
    THEN [url |-> Nullish(envUrl, ""), token |-> Nullish(envToken, "")]
    ELSE given

\* semanticCacheConfigSchema.parse(config)
parse(config, env) ==
    LET issues == StoreIssues("vector", config.vector) \cup StoreIssues("redis", config.redis)
    IN  IF issues # {}
        THEN [ok |-> FALSE, issues |-> issues, parsed |-> Null]
        ELSE [ok |-> TRUE, issues |-> {},
              parsed |-> [vector |-> StoreParsed(config.vector, env.VECTOR_REST_URL,
                                                 env.VECTOR_REST_TOKEN),
                          redis |-> StoreParsed(config.redis, env.REDIS_REST_URL,
                                                env.REDIS_REST_TOKEN)]]

\* validateEnvConfig(config): the credentials its errors name
validateEnvConfig(config) ==
    (IF Falsy(config.vector.url) THEN {"vector.url"} ELSE {})
    \cup (IF Falsy(config.vector.token) THEN {"vector.token"} ELSE {})
    \cup (IF Falsy(config.redis.url) THEN {"redis.url"} ELSE {})
    \cup (IF Falsy(config.redis.token) THEN {"redis.token"} ELSE {})

\* return { streamText, generateText, generateObject, streamObject }
Operations == {"streamText", "generateText", "generateObject", "streamObject"}

NoError == [name |-> "none", lists |-> {}]

\* the factory is called with a config under an environment
FactoryCalled(config, env) ==
    [pc |-> "parse", config |-> config, env |-> env, parsed |-> Null,
     error |-> NoError, clients |-> FALSE, operations |-> {}, onStepFinish |-> FALSE]

\* the instance the requests run on: a factory call that returned
ReadyFactory ==
    LET config == [vector |-> [url |-> "https://db.example", token |-> "tok"],
                   redis |-> [url |-> "https://db.example", token |-> "tok"]]
        env == [VECTOR_REST_URL |-> Undefined, VECTOR_REST_TOKEN |-> Undefined,
                REDIS_REST_URL |-> Undefined, REDIS_REST_TOKEN |-> Undefined]
    IN  [FactoryCalled(config, env) EXCEPT !.pc = "returned",
            !.parsed = parse(config, env).parsed, !.clients = TRUE,
            !.operations = Operations]

\* ------------------------------------------------------------------------
\* Stores as other writers left them
\* ------------------------------------------------------------------------

\* an entry another application keeps in the same index, without metadata
\* (its payload lives elsewhere)
ForeignId == "ext:1"

ForeignEntry == [vector |-> Embed(<<"[object">>), metadata |-> Null]

\* an entry written by the ai-sdk-embed package's streamText for BaseCall:
\* its scope is built from the application's options, model and system
\* included; its payload has reached its ttl
EmbedPkgText == norm(getCacheKey(BaseCall))

EmbedPkgId == CacheId("llm:", buildScope(BaseCall), EmbedPkgText)

EmbedPkgEntry == [vector |-> Embed(EmbedPkgText),
    metadata |-> [prompt |-> Flat(EmbedPkgText),
        llmModel |-> buildScope(BaseCall).llmModel,
        systemHash |-> buildScope(BaseCall).systemHash,
        params |-> buildScope(BaseCall).params,
        toolsHash |-> buildScope(BaseCall).toolsHash]]

\* an entry createIntentMemory wrote for an earlier request of the same
\* scope, whose extractor named the goal "agents" in the domain "AI"; its
\* payload has reached its ttl
EarlierIntent == [IntentExplain EXCEPT !.intent = <<"agents">>, !.goal = <<"agents">>]

EarlierText == norm(buildIntentString(EarlierIntent))

EarlierId == CacheId("intent:", buildScope(ToParams(BaseCall)), EarlierText)

EarlierEntry == [vector |-> Embed(EarlierText),
    metadata |-> [intent |-> Flat(EarlierText),
        domain |-> Flat(JoinWith(EarlierIntent.domain, ",")),
        stack |-> Flat(JoinWith(EarlierIntent.stack, ",")),
        goal |-> Flat(EarlierIntent.goal),
        llmModel |-> buildScope(ToParams(BaseCall)).llmModel,
        systemHash |-> buildScope(ToParams(BaseCall)).systemHash,
        params |-> buildScope(ToParams(BaseCall)).params,
        toolsHash |-> buildScope(ToParams(BaseCall)).toolsHash]]

\* no string has been handed to norm
NoText == [pc |-> "none", x |-> <<>>, once |-> <<>>, twice |-> <<>>]

Init ==
    /\ variant \in Variants
    /\ cacheMode \in CacheModes
    /\ req = [r \in Requests |-> IdleRequest]
    /\ kv = [id \in {} |-> Null]
    /\ locks = {}
    /\ index = (ForeignId :> ForeignEntry) @@ (EmbedPkgId :> EmbedPkgEntry)
               @@ (EarlierId :> EarlierEntry)
    /\ prov = [id \in {} |-> Null]
    /\ factory = ReadyFactory
    /\ text = NoText

\* ------------------------------------------------------------------------
\* Request steps (one per resumption of wrapStream / wrapGenerate)
\* ------------------------------------------------------------------------

Update(r, rec) == req' = [req EXCEPT ![r] = rec]

\* a request that has ended keeps its call, its cache text, its outcome and
\* what it did to the stores; its other locals are gone
Ended(rec, pc) == [IdleRequest EXCEPT !.pc = pc, !.call = rec.call, !.op = rec.op,
    !.overlaps = rec.overlaps, !.cacheInput = rec.cacheInput,
    !.returned = rec.returned, !.ok = rec.ok, !.storeError = rec.storeError,
    !.calledProvider = rec.calledProvider, !.didSet = rec.didSet,
    !.didUpsert = rec.didUpsert, !.didDel = rec.didDel, !.events = rec.events]

HasEnded(r) == req[r].pc \in {"done", "failed"}

InFlight(r) == req[r].pc \notin {"idle", "done", "failed"}

\* the calls request r may make
CallsOf(r) ==
    IF r = "r1" THEN {BaseCall}
    ELSE IF HasEnded("r1") THEN Calls
    ELSE {req["r1"].call}

StoresUnchanged == UNCHANGED <<kv, locks, index, prov>>

ConfigUnchanged == UNCHANGED <<variant, cacheMode, factory, text>>

\* wrapStream / wrapGenerate is entered: the prompt variant computes
\* getCacheKey(params) and goes to embed; the intent variant calls the
\* extractor (reporting "intent-extraction-start") unless the prompt is
\* empty, when it enters checkIntentCache at once
Start(r) ==
    /\ req[r].pc = "idle"
    /\ r = "r2" => req["r1"].pc # "idle"
    /\ \E call \in CallsOf(r), op \in Ops :
          LET params == ToParams(call)
              started == [req[r] EXCEPT !.call = call, !.op = op,
                                        !.overlaps = \E o \in Requests \ {r} : InFlight(o)]
          IN  IF variant = "llm"
              THEN Update(r, [started EXCEPT !.pc = "embed", !.cacheInput = getCacheKey(params)])
              ELSE IF Len(params.prompt) = 0
              THEN Update(r, Emit([started EXCEPT !.pc = "embed", !.cacheInput = <<>>],
                                  <<"cache-check-start">>))
              ELSE Update(r, Emit([started EXCEPT !.pc = "extract"],
                                  <<"intent-extraction-start">>))
    /\ StoresUnchanged /\ ConfigUnchanged

\* extractIntent's generateText call settles; getCacheKeyFromIntent returns
\* and checkIntentCache is entered (reporting "cache-check-start"), or
\* getCacheKeyFromIntent throws the TypeError of buildIntentString's spreads
Extract(r) ==
    /\ req[r].pc = "extract"
    /\ \E reply \in ExtractorReplies(ToParams(req[r].call).prompt) :
          LET extracted == extractIntent(ToParams(req[r].call).prompt, reply)
          IN  IF Spreadable(extracted)
              THEN Update(r, Emit([req[r] EXCEPT !.pc = "embed", !.extracted = extracted,
                                       !.cacheInput = buildIntentString(extracted)],
                                  ExtractionEnd(reply) \o <<"cache-check-start">>))
              ELSE Update(r, Ended(req[r], "failed"))
    /\ StoresUnchanged /\ ConfigUnchanged

\* embed(...) settles
EmbedStep(r) ==
    /\ req[r].pc = "embed"
    /\ \/ Update(r, [req[r] EXCEPT !.pc = "query"])
       \/ Update(r, Ended(req[r], "failed"))
    /\ StoresUnchanged /\ ConfigUnchanged

\* index.query(...) settles and result.find picks the hit; without a hit the
\* lookup returns (reporting "cache-miss")
Query(r) ==
    /\ req[r].pc = "query"
    /\ \/ \E result \in QueryResults(index, Embed(NormOf(r))) :
             LET hit == find(result, ScopeOf(r))
             IN  Update(r, Emit([req[r] EXCEPT !.queryResult = result, !.hit = hit,
                                      !.pc = IF hit # Null THEN "get" ELSE "route"],
                                 FindSteps(result, ScopeOf(r))
                                 \o (IF hit # Null THEN <<>> ELSE <<"cache-miss">>)))
       \/ Update(r, Ended(req[r], "failed"))
    /\ StoresUnchanged /\ ConfigUnchanged

\* a lookup that treats a rejected redis.get as a miss
Get_FailOpen(r) ==
    /\ req[r].pc = "get"
    /\ \/ LET id == req[r].hit.id
          IN  Update(r, [req[r] EXCEPT !.pc = "route",
                      !.cached = IF id \in DOMAIN kv THEN kv[id] ELSE Null,
                      !.source = IF id \in DOMAIN kv THEN prov[id] ELSE Null])
       \/ Update(r, [req[r] EXCEPT !.pc = "route"])
    /\ StoresUnchanged /\ ConfigUnchanged

\* redis.get(hit.id) settles; checkSemanticCache / checkIntentCache returns
\* (reporting "cache-hit" or "cache-miss")
Get(r) ==
    /\ req[r].pc = "get"
    /\ \/ LET id == req[r].hit.id
          IN  Update(r, Emit([req[r] EXCEPT !.pc = "route",
                                   !.cached = IF id \in DOMAIN kv THEN kv[id] ELSE Null,
                                   !.source = IF id \in DOMAIN kv THEN prov[id] ELSE Null],
                              IF id \in DOMAIN kv /\ Truthy(kv[id])
                              THEN <<"cache-hit">> ELSE <<"cache-miss">>))
       \/ Update(r, Ended(req[r], "failed"))
    /\ StoresUnchanged /\ ConfigUnchanged

\* a caller that always goes to the provider
UseCached_Never(cached) == FALSE

\* a caller that replays whatever the cacheMode
UseCached_AnyMode(cached) == Truthy(cached)

\* if (cached && cacheMode !== "refresh")
UseCached(cached) == Truthy(cached) /\ cacheMode # "refresh"

\* the caller resumes after the lookup: replay, or go to the provider
\* (reporting "generation-start")
Route(r) ==
    /\ req[r].pc = "route"
    /\ IF UseCached(req[r].cached)
       THEN IF req[r].op = "stream"
            THEN Update(r, [req[r] EXCEPT !.pc = "replay",
                         !.provider = ReplayChunks(req[r].cached)])
            ELSE Update(r, Ended([req[r] EXCEPT !.returned = ReplayResult(req[r].cached)],
                                 "done"))
       ELSE Update(r, Emit([req[r] EXCEPT !.pc = "provider"], <<"generation-start">>))
    /\ StoresUnchanged /\ ConfigUnchanged

\* simulateReadableStream hands out the next chunk
Replay(r) ==
    /\ req[r].pc = "replay"
    /\ req[r].provider # <<>>
    /\ Update(r, [req[r] EXCEPT !.provider = Tail(@),
               !.delivered = Append(@, Head(req[r].provider))])
    /\ StoresUnchanged /\ ConfigUnchanged

\* a replay that writes what it replayed back to the stores
ReplayEnd_Stores(r) ==
    /\ req[r].pc = "replay"
    /\ req[r].provider = <<>>
    /\ Update(r, [req[r] EXCEPT !.pc = "lock", !.fullResponse = req[r].delivered])
    /\ StoresUnchanged /\ ConfigUnchanged

\* the replayed stream closes after its last chunk
ReplayEnd(r) ==
    /\ req[r].pc = "replay"
    /\ req[r].provider = <<>>
    /\ Update(r, Ended(req[r], "done"))
    /\ StoresUnchanged /\ ConfigUnchanged

\* await doStream() settles
DoStream(r) ==
    /\ req[r].pc = "provider"
    /\ req[r].op = "stream"
    /\ \/ \E st \in ProviderStreams :
             Update(r, [req[r] EXCEPT !.pc = "streaming", !.provider = st,
                     !.calledProvider = TRUE])
       \/ Update(r, Ended([req[r] EXCEPT !.calledProvider = TRUE], "failed"))
    /\ StoresUnchanged /\ ConfigUnchanged

\* await doGenerate() settles (reporting "generation-complete");
\* storeInCache is called with the result (reporting "cache-store-start")
DoGenerate(r) ==
    /\ req[r].pc = "provider"
    /\ req[r].op = "generate"
    /\ \/ \E res \in ProviderResults :
             Update(r, Emit([req[r] EXCEPT !.pc = "lock", !.genResult = res,
                                  !.calledProvider = TRUE],
                             <<"generation-complete", "cache-store-start">>))
       \/ Update(r, Ended([req[r] EXCEPT !.calledProvider = TRUE], "failed"))
    /\ StoresUnchanged /\ ConfigUnchanged

\* a transform that captures the chunk without enqueueing it
Forward_Drop(chunk, sofar) == sofar

\* controller.enqueue(chunk): what the consumer has received
Forward(chunk, sofar) == Append(sofar, chunk)

\* transform(chunk, controller) of the capture TransformStream
Transform(r) ==
    /\ req[r].pc = "streaming"
    /\ req[r].provider # <<>>
    /\ LET chunk == Head(req[r].provider)
       IN  Update(r, [req[r] EXCEPT !.provider = Tail(@),
                   !.fullResponse = Append(@, chunk),
                   !.delivered = Forward(chunk, @)])
    /\ StoresUnchanged /\ ConfigUnchanged

\* the provider stream closes: flush() runs (reporting
\* "generation-complete") and calls storeInCache (reporting
\* "cache-store-start")
Flush(r) ==
    /\ req[r].pc = "streaming"
    /\ req[r].provider = <<>>
    /\ Update(r, Emit([req[r] EXCEPT !.pc = "lock"],
                     <<"generation-complete", "cache-store-start">>))
    /\ StoresUnchanged /\ ConfigUnchanged

\* a capture transform whose flush() runs when the provider stream errors
StreamError_Flushes(r) ==
    /\ req[r].pc = "streaming"
    /\ Update(r, [req[r] EXCEPT !.pc = "lock"])
    /\ StoresUnchanged /\ ConfigUnchanged

\* the provider stream errors: flush() does not run
StreamError(r) ==
    /\ req[r].pc = "streaming"
    /\ Update(r, Ended(req[r], "failed"))
    /\ StoresUnchanged /\ ConfigUnchanged

\* ------------------------------------------------------------------------
\* Write-back: storeInCache(id, data, embedding, norm text, scope)
\* ------------------------------------------------------------------------

\* a store that refuses every NX set
Granted_Never(key) == FALSE

\* redis.set(lockKey, "1", { nx: true, ex: 15 }) answers OK iff the key is not set
Granted(key) == key \notin locks

\* a writer that goes on whatever the NX set answered
AfterLock_Ignored(ok) == "set"

\* a writer that upserts the index entry without setting the payload first
AfterLock_UpsertFirst(ok) == IF ok THEN "upsert" ELSE "done"

\* if (!ok) return;
AfterLock(ok) == IF ok THEN "set" ELSE "done"

\* the return value of wrapGenerate on the live path
Returned(r) ==
    IF req[r].op \in {"generate", "generateText", "generateObject"} THEN req[r].genResult
    ELSE Null

\* the NX set of the lock key settles
Lock(r) ==
    /\ req[r].pc = "lock"
    /\ LET key == LockKey(IdOf(r))
           ok == Granted(key)
       IN  /\ locks' = IF ok THEN locks \cup {key} ELSE locks
           /\ IF AfterLock(ok) = "done"
              THEN Update(r, Ended([req[r] EXCEPT !.ok = "no", !.returned = Returned(r)], "done"))
              ELSE Update(r, [req[r] EXCEPT !.ok = IF ok THEN "yes" ELSE "no",
                              !.pc = AfterLock(ok)])
    /\ UNCHANGED <<kv, index, prov>> /\ ConfigUnchanged

\* redis.set(id, data, { ex: ttl }) settles; the catch block reports
\* "cache-store-error"
SetPayload(r) ==
    /\ req[r].pc = "set"
    /\ \/ /\ kv' = (IdOf(r) :> Serialize(DataOf(r))) @@ kv
          /\ prov' = (IdOf(r) :> [call |-> req[r].call, data |-> DataOf(r), by |-> r]) @@ prov
          /\ Update(r, [req[r] EXCEPT !.pc = "upsert", !.didSet = TRUE])
       \/ /\ UNCHANGED <<kv, prov>>
          /\ Update(r, Emit([req[r] EXCEPT !.pc = "del", !.storeError = TRUE],
                           <<"cache-store-error">>))
    /\ UNCHANGED <<locks, index>> /\ ConfigUnchanged

\* index.upsert([{ id, vector, metadata }]) settles (reporting
\* "cache-store-complete"); the catch block reports "cache-store-error"
Upsert(r) ==
    /\ req[r].pc = "upsert"
    /\ \/ /\ index' = (IdOf(r) :> [vector |-> Embed(NormOf(r)), metadata |-> MetadataOf(r)])
                      @@ index
          /\ Update(r, Emit([req[r] EXCEPT !.pc = "del", !.didUpsert = TRUE],
                           <<"cache-store-complete">>))
       \/ /\ UNCHANGED index
          /\ Update(r, Emit([req[r] EXCEPT !.pc = "del", !.storeError = TRUE],
                           <<"cache-store-error">>))
    /\ UNCHANGED <<kv, locks, prov>> /\ ConfigUnchanged

\* a writer that ends without deleting its lock key
Del_Keeps(r) ==
    /\ req[r].pc = "del"
    /\ IF req[r].storeError
       THEN Update(r, Ended([req[r] EXCEPT !.didDel = TRUE], "failed"))
       ELSE Update(r, Ended([req[r] EXCEPT !.didDel = TRUE, !.returned = Returned(r)], "done"))
    /\ StoresUnchanged /\ ConfigUnchanged

\* finally { await redis.del(lockKey) }; a storage error is rethrown
Del(r) ==
    /\ req[r].pc = "del"
    /\ locks' = locks \ {LockKey(IdOf(r))}
    /\ IF req[r].storeError
       THEN Update(r, Ended([req[r] EXCEPT !.didDel = TRUE], "failed"))
       ELSE Update(r, Ended([req[r] EXCEPT !.didDel = TRUE, !.returned = Returned(r)], "done"))
    /\ UNCHANGED <<kv, index, prov>> /\ ConfigUnchanged

\* ------------------------------------------------------------------------
\* The payload store's expiry
\* ------------------------------------------------------------------------

\* a lock key reaches its 15 second expiry
LockExpire ==
    /\ \E key \in locks : locks' = locks \ {key}
    /\ UNCHANGED <<req, kv, index, prov>> /\ ConfigUnchanged

\* a payload reaches its ttl
PayloadExpire ==
    /\ Cardinality(DOMAIN prov \ DOMAIN kv) < MaxExpired
    /\ \E id \in DOMAIN kv : kv' = [x \in DOMAIN kv \ {id} |-> kv[x]]
    /\ UNCHANGED <<req, locks, index, prov>> /\ ConfigUnchanged

Next ==
    \/ \E r \in Requests :
          \/ Start(r) \/ Extract(r) \/ EmbedStep(r) \/ Query(r) \/ Get(r) \/ Route(r)
          \/ Replay(r) \/ ReplayEnd(r) \/ DoStream(r) \/ DoGenerate(r)
          \/ Transform(r) \/ Flush(r) \/ StreamError(r)
          \/ Lock(r) \/ SetPayload(r) \/ Upsert(r) \/ Del(r)
    \/ LockExpire
    \/ PayloadExpire

Spec == Init /\ [][Next]_vars

\* ------------------------------------------------------------------------
\* The factory call, step by step
\* ------------------------------------------------------------------------

RequestsUnchanged == UNCHANGED <<variant, cacheMode, req, kv, locks, index, prov, text>>

\* const parsed = schema.parse(config): a ZodError, or the parsed config
ParseConfig ==
    /\ factory.pc = "parse"
    /\ LET res == parse(factory.config, factory.env)
       IN  IF res.ok
           THEN factory' = [factory EXCEPT !.pc = "validate", !.parsed = res.parsed]
           ELSE factory' = [factory EXCEPT !.pc = "thrown",
                               !.error = [name |-> "ZodError", lists |-> res.issues]]
    /\ RequestsUnchanged

\* validateEnvConfig(parsed): throws the aggregated Error, or returns
ValidateEnv ==
    /\ factory.pc = "validate"
    /\ LET errors == validateEnvConfig(factory.parsed)
       IN  IF errors # {}
           THEN factory' = [factory EXCEPT !.pc = "thrown",
                               !.error = [name |-> "Error", lists |-> errors]]
           ELSE factory' = [factory EXCEPT !.pc = "construct"]
    /\ RequestsUnchanged

\* new Index(...), new Redis(...), and the return of the operations
Construct ==
    /\ factory.pc = "construct"
    /\ factory' = [factory EXCEPT !.pc = "returned", !.clients = TRUE,
                       !.operations = Operations]
    /\ RequestsUnchanged

InitFactory ==
    /\ variant \in Variants
    /\ cacheMode \in CacheModes
    /\ req = [r \in Requests |-> IdleRequest]
    /\ kv = [id \in {} |-> Null]
    /\ locks = {}
    /\ index = (ForeignId :> ForeignEntry) @@ (EmbedPkgId :> EmbedPkgEntry)
               @@ (EarlierId :> EarlierEntry)
    /\ prov = [id \in {} |-> Null]
    /\ \E config \in Configs, env \in Envs : factory = FactoryCalled(config, env)
    /\ text = NoText

NextFactory == ParseConfig \/ ValidateEnv \/ Construct

SpecFactory == InitFactory /\ [][NextFactory]_vars

\* ------------------------------------------------------------------------
\* norm, applied to a string and to its own result
\* ------------------------------------------------------------------------

\* the pieces strings are made of: whitespace characters, words with
\* uppercase letters, a word without
Pieces == Whitespace \cup {"Explain", "AI", "agents"}

\* the strings of at most MaxLen pieces
Strings == UNION {[1..n -> Pieces] : n \in 0..MaxLen}

\* const promptNorm = norm(cacheInput)
NormOnce ==
    /\ text.pc = "given"
    /\ text' = [text EXCEPT !.pc = "once", !.once = norm(text.x)]
    /\ UNCHANGED <<variant, cacheMode, req, kv, locks, index, prov, factory>>

\* norm of a string that is already a norm
NormTwice ==
    /\ text.pc = "once"
    /\ text' = [text EXCEPT !.pc = "twice", !.twice = norm(text.once)]
    /\ UNCHANGED <<variant, cacheMode, req, kv, locks, index, prov, factory>>

InitNorm ==
    /\ variant \in Variants
    /\ cacheMode \in CacheModes
    /\ req = [r \in Requests |-> IdleRequest]
    /\ kv = [id \in {} |-> Null]
    /\ locks = {}
    /\ index = (ForeignId :> ForeignEntry) @@ (EmbedPkgId :> EmbedPkgEntry)
               @@ (EarlierId :> EarlierEntry)
    /\ prov = [id \in {} |-> Null]
    /\ factory = ReadyFactory
    /\ \E x \in Strings : text = [NoText EXCEPT !.pc = "given", !.x = x]

NextNorm == NormOnce \/ NormTwice

SpecNorm == InitNorm /\ [][NextNorm]_vars

\* ------------------------------------------------------------------------
\* The ai-sdk-embed package: createSemanticCache without a middleware
\* ------------------------------------------------------------------------

PkgOps == {"streamText", "generateText", "streamObject", "generateObject"}

PkgStreamOps == {"streamText", "streamObject"}

\* simulateStream.enabled, at its default
SimulateEnabled == TRUE

\* whether the hit branch of streamText / streamObject has a source stream
\* for the payload; otherwise it returns streamText(options) unchanged
HasSource(cached, op) ==
    \/ "streamParts" \in DOMAIN cached
    \/ op = "streamText" /\ "text" \in DOMAIN cached /\ cached.text # ""

\* the chunks of sourceStream
SourceChunks(cached, op) ==
    IF "streamParts" \in DOMAIN cached /\ SimulateEnabled
    THEN [i \in 1..Len(cached.streamParts) |-> RehydrateChunk(cached.streamParts[i])]
    ELSE IF "streamParts" \in DOMAIN cached
    THEN cached.streamParts
    ELSE <<[type |-> "text-delta", textDelta |-> cached.text]>>

\* the positions where the detached write-back is over, or was never started
WbOver == {"none", "skipped", "rejected", "done"}

\* what is left of a stream request of the package: once the consumer's
\* stream is over its read-side locals are gone, and once the detached
\* write-back is over too only the outcome is kept
Rest(rec) ==
    IF rec.pc \notin {"done", "failed"} THEN rec
    ELSE IF rec.wb \in WbOver THEN [Ended(rec, rec.pc) EXCEPT !.wb = rec.wb]
    ELSE [rec EXCEPT !.queryResult = IdleRequest.queryResult, !.hit = IdleRequest.hit,
              !.cached = IdleRequest.cached, !.source = IdleRequest.source,
              !.provider = IdleRequest.provider, !.delivered = IdleRequest.delivered]

\* the calls request r may make to the package: the second request is made
\* once nothing of the first is running any more
CallsOfPkg(r) ==
    IF r = "r1" THEN {BaseCall}
    ELSE IF HasEnded("r1") /\ req["r1"].wb \in WbOver THEN Calls
    ELSE {}

\* an operation of the package is entered: getCacheKey(options), buildScope(options)
StartPkg(r) ==
    /\ req[r].pc = "idle"
    /\ r = "r2" => req["r1"].pc # "idle"
    /\ \E call \in CallsOfPkg(r), op \in PkgOps :
          Update(r, [req[r] EXCEPT !.call = call, !.op = op, !.pc = "embed",
                  !.overlaps = \E o \in Requests \ {r} : InFlight(o),
                  !.cacheInput = getCacheKey(call)])
    /\ StoresUnchanged /\ ConfigUnchanged

\* the operation resumes after checkCache. A stream operation with a usable
\* payload calls streamText / streamObject with a transform that enqueues the
\* source stream and then terminates: the model is called and its chunks go
\* through the same transform. Without a source stream it returns the plain
\* call. A generate operation returns the payload as it was read. On a miss a
\* stream operation calls the model with the capture transform and starts the
\* detached write-back: streamText's awaits the final text, streamObject's
\* calls storeInCache at once.
RoutePkg(r) ==
    /\ req[r].pc = "route"
    /\ IF UseCached(req[r].cached)
       THEN IF req[r].op \in PkgStreamOps
            THEN \E st \in ProviderStreams :
                    IF HasSource(req[r].cached, req[r].op)
                    THEN Update(r, [req[r] EXCEPT !.pc = "replay",
                                 !.provider = SourceChunks(req[r].cached, req[r].op),
                                 !.model = st, !.calledProvider = TRUE])
                    ELSE Update(r, [req[r] EXCEPT !.pc = "streaming", !.provider = st,
                                 !.calledProvider = TRUE])
            ELSE Update(r, Ended([req[r] EXCEPT !.returned = req[r].cached], "done"))
       ELSE IF req[r].op \in PkgStreamOps
            THEN \E st \in ProviderStreams :
                    Update(r, [req[r] EXCEPT !.pc = "streaming", !.provider = st,
                            !.calledProvider = TRUE,
                            !.wb = IF req[r].op = "streamText" THEN "wait" ELSE "lock"])
            ELSE Update(r, [req[r] EXCEPT !.pc = "provider"])
    /\ StoresUnchanged /\ ConfigUnchanged

\* a chunk of the model's own stream reaches the replaying transform, which
\* has no transform method and so enqueues it
Leak(r) ==
    /\ req[r].pc = "replay"
    /\ req[r].model # <<>>
    /\ Update(r, [req[r] EXCEPT !.model = Tail(@),
               !.delivered = Append(@, Head(req[r].model))])
    /\ StoresUnchanged /\ ConfigUnchanged

\* await generateText(options) / generateObject(options) settles
GeneratePkg(r) ==
    /\ req[r].pc = "provider"
    /\ \/ \E res \in ProviderResults :
             Update(r, [req[r] EXCEPT !.pc = "lock", !.genResult = res,
                     !.calledProvider = TRUE])
       \/ Update(r, Ended([req[r] EXCEPT !.calledProvider = TRUE], "failed"))
    /\ StoresUnchanged /\ ConfigUnchanged

\* a chunk of the model's stream goes through the transform of the call:
\* the capture transform on a miss, none on the plain call
TransformPkg(r) ==
    /\ req[r].pc = "streaming"
    /\ req[r].provider # <<>>
    /\ LET chunk == Head(req[r].provider)
       IN  Update(r, [req[r] EXCEPT !.provider = Tail(@),
                   !.fullResponse = IF req[r].wb = "none" THEN @ ELSE Append(@, chunk),
                   !.delivered = Forward(chunk, @)])
    /\ StoresUnchanged /\ ConfigUnchanged

\* the model's stream closes: streamResult.text resolves
StreamEndPkg(r) ==
    /\ req[r].pc = "streaming"
    /\ req[r].provider = <<>>
    /\ Update(r, Rest([req[r] EXCEPT !.pc = "done",
               !.wb = IF @ = "wait" THEN "lock" ELSE @]))
    /\ StoresUnchanged /\ ConfigUnchanged

\* the model's stream errors: streamResult.text rejects, and with it the
\* detached function that awaits it
StreamErrorPkg(r) ==
    /\ req[r].pc = "streaming"
    /\ Update(r, Rest([req[r] EXCEPT !.pc = "failed",
               !.wb = IF @ = "wait" THEN "rejected" ELSE @]))
    /\ StoresUnchanged /\ ConfigUnchanged

\* storeInCache of the detached function: the NX set of the lock key settles
LockDetached(r) ==
    /\ req[r].wb = "lock"
    /\ LET key == LockKey(IdOf(r))
           ok == Granted(key)
       IN  /\ locks' = IF ok THEN locks \cup {key} ELSE locks
           /\ Update(r, Rest([req[r] EXCEPT !.ok = IF ok THEN "yes" ELSE "no",
                      !.wb = IF AfterLock(ok) = "done" THEN "skipped" ELSE AfterLock(ok)]))
    /\ UNCHANGED <<kv, index, prov>> /\ ConfigUnchanged

\* redis.set(id, data, { ex: ttl }) of the detached function settles; data
\* holds the parts captured so far
SetDetached(r) ==
    /\ req[r].wb = "set"
    /\ \/ /\ kv' = (IdOf(r) :> Serialize(DataOf(r))) @@ kv
          /\ prov' = (IdOf(r) :> [call |-> req[r].call, data |-> DataOf(r), by |-> r]) @@ prov
          /\ Update(r, [req[r] EXCEPT !.wb = "upsert", !.didSet = TRUE])
       \/ /\ UNCHANGED <<kv, prov>>
          /\ Update(r, [req[r] EXCEPT !.wb = "del", !.storeError = TRUE])
    /\ UNCHANGED <<locks, index>> /\ ConfigUnchanged

\* index.upsert(...) of the detached function settles
UpsertDetached(r) ==
    /\ req[r].wb = "upsert"
    /\ \/ /\ index' = (IdOf(r) :> [vector |-> Embed(NormOf(r)), metadata |-> MetadataOf(r)])
                      @@ index
          /\ Update(r, [req[r] EXCEPT !.wb = "del", !.didUpsert = TRUE])
       \/ /\ UNCHANGED index
          /\ Update(r, [req[r] EXCEPT !.wb = "del", !.storeError = TRUE])
    /\ UNCHANGED <<kv, locks, prov>> /\ ConfigUnchanged

\* finally { await redis.del(lockKey) } of the detached function; a storage
\* error rejects a promise nobody holds
DelDetached(r) ==
    /\ req[r].wb = "del"
    /\ locks' = locks \ {LockKey(IdOf(r))}
    /\ Update(r, Rest([req[r] EXCEPT !.didDel = TRUE,
               !.wb = IF req[r].storeError THEN "rejected" ELSE "done"]))
    /\ UNCHANGED <<kv, index, prov>> /\ ConfigUnchanged

InitEmbed ==
    /\ variant = "pkg"
    /\ cacheMode \in CacheModes
    /\ req = [r \in Requests |-> IdleRequest]
    /\ kv = [id \in {} |-> Null]
    /\ locks = {}
    /\ index = (ForeignId :> ForeignEntry) @@ (EmbedPkgId :> EmbedPkgEntry)
               @@ (EarlierId :> EarlierEntry)
    /\ prov = [id \in {} |-> Null]
    /\ factory = ReadyFactory
    /\ text = NoText

NextEmbed ==
    \/ \E r \in Requests :
          \/ StartPkg(r) \/ EmbedStep(r) \/ Query(r) \/ Get(r) \/ RoutePkg(r)
          \/ Replay(r) \/ Leak(r) \/ ReplayEnd(r) \/ GeneratePkg(r)
          \/ TransformPkg(r) \/ StreamEndPkg(r) \/ StreamErrorPkg(r)
          \/ Lock(r) \/ SetPayload(r) \/ Upsert(r) \/ Del(r)
          \/ LockDetached(r) \/ SetDetached(r) \/ UpsertDetached(r) \/ DelDetached(r)
    \/ LockExpire
    \/ PayloadExpire

SpecEmbed == InitEmbed /\ [][NextEmbed]_vars

\* ------------------------------------------------------------------------
\* Writers that stop while they hold the lock
\* ------------------------------------------------------------------------

\* request r is inside the try / finally of storeInCache: its NX set was
\* answered OK and its redis.del has not settled
HoldsLock(r) == req[r].pc \in {"set", "upsert", "del"}

\* the writer's process dies between the NX set and the del, or the del
\* itself is rejected: the lock key is left to its expiry
Crash(r) ==
    /\ HoldsLock(r)
    /\ Update(r, Ended(req[r], "failed"))
    /\ StoresUnchanged /\ ConfigUnchanged

\* the index before any request of the run
SeedIndex == (ForeignId :> ForeignEntry) @@ (EmbedPkgId :> EmbedPkgEntry)
             @@ (EarlierId :> EarlierEntry)

\* what a request of BaseCall holds when it enters storeInCache in a run
\* whose payload store is still empty: the cache text of its variant, the
\* query result over the seed index, a lookup that returned null, and the
\* provider's stream or result
AtStoreEntry(overlaps) ==
    LET prompt == ToParams(BaseCall).prompt
        inputs == IF variant = "llm"
                  THEN {[extracted |-> Null, cacheInput |-> getCacheKey(ToParams(BaseCall))]}
                  ELSE {[extracted |-> extractIntent(prompt, reply),
                         cacheInput |-> buildIntentString(extractIntent(prompt, reply))] :
                            reply \in {x \in ExtractorReplies(prompt) :
                                          Spreadable(extractIntent(prompt, x))}}
        looked == UNION {{[IdleRequest EXCEPT !.pc = "lock", !.call = BaseCall,
                              !.overlaps = overlaps, !.extracted = in.extracted,
                              !.cacheInput = in.cacheInput, !.queryResult = result,
                              !.hit = find(result, buildScope(ToParams(BaseCall))),
                              !.calledProvider = TRUE] :
                            result \in QueryResults(SeedIndex, Embed(norm(in.cacheInput)))} :
                         in \in inputs}
    IN  {[rec EXCEPT !.op = "stream", !.fullResponse = st, !.delivered = st] :
            rec \in looked, st \in ProviderStreams}
        \cup {[rec EXCEPT !.op = "generate", !.genResult = res] :
            rec \in looked, res \in ProviderResults}

\* two overlapping requests are about to write back
InitLock ==
    /\ variant \in Variants
    /\ cacheMode \in CacheModes
    /\ factory = ReadyFactory
    /\ req \in [Requests -> AtStoreEntry(FALSE) \cup AtStoreEntry(TRUE)]
    /\ ~req["r1"].overlaps /\ req["r2"].overlaps
    /\ kv = [id \in {} |-> Null]
    /\ locks = {}
    /\ index = SeedIndex
    /\ prov = [id \in {} |-> Null]
    /\ text = NoText

NextLock ==
    \/ \E r \in Requests : Lock(r) \/ SetPayload(r) \/ Upsert(r) \/ Del(r) \/ Crash(r)
    \/ LockExpire

\* the store deletes a key that has an expiry: { nx: true, ex: 15 }
SpecLock == InitLock /\ [][NextLock]_vars /\ WF_vars(LockExpire)

\* ------------------------------------------------------------------------
\* createIntentMemory with an onStepFinish callback
\* ------------------------------------------------------------------------

InitSteps ==
    /\ variant = "intent"
    /\ cacheMode \in CacheModes
    /\ req = [r \in Requests |-> IdleRequest]
    /\ kv = [id \in {} |-> Null]
    /\ locks = {}
    /\ index = SeedIndex
    /\ prov = [id \in {} |-> Null]
    /\ factory = [ReadyFactory EXCEPT !.onStepFinish = TRUE]
    /\ text = NoText

SpecSteps == InitSteps /\ [][Next]_vars

\* ------------------------------------------------------------------------
\* Stores that hold a payload of the legacy shape
\* ------------------------------------------------------------------------

\* payloads { text, id, usage } without streamParts, as an earlier version
\* stored them; the text a model produced can be empty
LegacyPayloads == {[text |-> t, id |-> "1", usage |-> "12 tokens"] : t \in {"Hello", ""}}

\* the text and the id under which the base call's answer is stored
LegacyText ==
    IF variant = "llm" THEN norm(getCacheKey(ToParams(BaseCall))) ELSE EarlierText

LegacyId == CacheId(Prefix, buildScope(ToParams(BaseCall)), LegacyText)

\* the index entry of that id
LegacyEntry ==
    IF variant = "llm"
    THEN [vector |-> Embed(LegacyText),
          metadata |-> [prompt |-> Flat(LegacyText),
              llmModel |-> buildScope(ToParams(BaseCall)).llmModel,
              systemHash |-> buildScope(ToParams(BaseCall)).systemHash,
              params |-> buildScope(ToParams(BaseCall)).params,
              toolsHash |-> buildScope(ToParams(BaseCall)).toolsHash]]
    ELSE EarlierEntry

InitLegacy ==
    /\ variant \in Variants
    /\ cacheMode = "default"
    /\ factory = ReadyFactory
    /\ req = [r \in Requests |-> IdleRequest]
    /\ \E payload \in LegacyPayloads :
          /\ kv = (LegacyId :> payload)
          /\ prov = (LegacyId :> [call |-> BaseCall, data |-> payload, by |-> "earlier"])
    /\ locks = {}
    /\ index = (LegacyId :> LegacyEntry) @@ SeedIndex
    /\ text = NoText

SpecLegacy == InitLegacy /\ [][Next]_vars

\* ------------------------------------------------------------------------
\* extractIntent: the text handed to the extractor LLM
\* ------------------------------------------------------------------------

\* an assistant message whose content is an array of parts
MsgAnswer == [role |-> "assistant",
    content |-> [kind |-> "parts", text |-> <<"Agents", " ", "plan">>]]

WindowMessages == {MsgExplain, MsgDeploy, MsgAnswer}

\* the longest conversation
MaxConversation == 3

Conversations == UNION {[1..n -> WindowMessages] : n \in 1..MaxConversation}

\* the numbers z.number() admits for intentExtractor.windowSize, among them
\* the default 5
WindowSizes == {-1, 0, 1, 2, 5}

CustomPrompt == <<"Custom extraction prompt">>

\* intentExtractor after intentCacheConfigSchema.parse: windowSize is always
\* there (default 5), prompt is optional
ExtractorConfigs ==
    {[model |-> "gpt-4", windowSize |-> w] : w \in WindowSizes}
    \cup {[model |-> "gpt-4", windowSize |-> w, prompt |-> CustomPrompt] : w \in WindowSizes}

\* Array.prototype.slice(start): a negative start counts from the end, a
\* start of 0 (and -0 is 0) is the beginning of the array
slice(arr, start) ==
    LET len == Len(arr)
        k == IF start < 0 THEN (IF len + start > 0 THEN len + start ELSE 0)
             ELSE Min(start, len)
    IN  SubSeq(arr, k + 1, len)

\* `${m.role}: ${typeof m.content === "string" ? m.content : JSON.stringify(m.content)}`
ContextLine(m) == <<m.role, ": ">> \o ContentString(m.content)

\* messages.slice(-windowSize)
recentMessages(messages, intentExtractor) == slice(messages, 0 - intentExtractor.windowSize)

\* recentMessages.map(...).join("\n")
conversationContext(recent) ==
    JoinWith([i \in 1..Len(recent) |-> ContextLine(recent[i])], "\n")

TemplateHead ==
    "Analyze this conversation and extract the user's current intent.\n\nConversation:\n"

TemplateTail ==
    "\n\nExtract and return ONLY a JSON object with this exact structure (no markdown, no explanation): ..."

\* intentExtractor?.prompt ?? `...${conversationContext}...`
extractionPrompt(intentExtractor, context) ==
    IF "prompt" \in DOMAIN intentExtractor THEN intentExtractor.prompt
    ELSE <<TemplateHead>> \o context \o <<TemplateTail>>

\* extractIntent up to the generateText call, for the conversation of
\* request r
BuildExtractionPrompt(r) ==
    /\ text.pc = "extraction"
    /\ ~text.built[r]
    /\ LET recent == recentMessages(text.messages[r], text.intentExtractor)
           context == conversationContext(recent)
       IN  text' = [text EXCEPT !.built[r] = TRUE,
                        !.recentMessages[r] = recent,
                        !.conversationContext[r] = context,
                        !.extractionPrompt[r] =
                            extractionPrompt(text.intentExtractor, context)]
    /\ UNCHANGED <<variant, cacheMode, req, kv, locks, index, prov, factory>>

InitExtraction ==
    /\ variant = "intent"
    /\ cacheMode = "default"
    /\ req = [r \in Requests |-> IdleRequest]
    /\ kv = [id \in {} |-> Null]
    /\ locks = {}
    /\ index = SeedIndex
    /\ prov = [id \in {} |-> Null]
    /\ factory = ReadyFactory
    /\ \E e \in ExtractorConfigs, messages \in [Requests -> Conversations] :
          text = [pc |-> "extraction", intentExtractor |-> e, messages |-> messages,
                  built |-> [r \in Requests |-> FALSE],
                  recentMessages |-> [r \in Requests |-> <<>>],
                  conversationContext |-> [r \in Requests |-> <<>>],
                  extractionPrompt |-> [r \in Requests |-> <<>>]]

NextExtraction == \E r \in Requests : BuildExtractionPrompt(r)

SpecExtraction == InitExtraction /\ [][NextExtraction]_vars

\* ------------------------------------------------------------------------
\* Consumers that cancel the live stream
\* ------------------------------------------------------------------------

\* what is left of a request whose consumer cancelled its stream
Cancelled == [cancelled |-> TRUE]

\* a capture transform whose flush() runs when the consumer cancels
Cancel_Flushes(r) ==
    /\ req[r].pc = "streaming"
    /\ Update(r, [req[r] EXCEPT !.pc = "lock"])
    /\ StoresUnchanged /\ ConfigUnchanged

\* the consumer cancels the stream it was returned, before or between
\* chunks: the readable side of the TransformStream is cancelled, the
\* provider stream is cancelled through the pipe and flush() does not run.
\* (A consumer that stops reading leaves the request where it is: transform
\* runs for a chunk only when the consumer reads.)
Cancel(r) ==
    /\ req[r].pc = "streaming"
    /\ Update(r, [Ended(req[r], "failed") EXCEPT !.returned = Cancelled])
    /\ StoresUnchanged /\ ConfigUnchanged

NextCancel == Next \/ \E r \in Requests : Cancel(r)

SpecCancel == Init /\ [][NextCancel]_vars

\* ------------------------------------------------------------------------
\* One vector index and one payload store shared by the two variants
\* ------------------------------------------------------------------------

\* the id prefix of the other variant's instance
OtherPrefix == IF variant = "intent" THEN "llm:" ELSE "intent:"

\* the intent an intent-variant instance extracted from a question about the
\* text "[object Object]"
ObjectIntent == [intent |-> <<"[object", " ", "Object]">>, domain |-> <<>>, stack |-> <<>>,
    goal |-> <<"[object", " ", "Object]">>, constraints |-> <<>>]

\* the text under which the other instance stored an answer: the intent
\* string of that intent, or the prompt variant's cache text of BaseCall
OtherText ==
    IF variant = "llm" THEN norm(buildIntentString(ObjectIntent))
    ELSE norm(getCacheKey(ToParams(BaseCall)))

\* prefix + sha(...) as the other instance's storeInCache was handed it
OtherId == CacheId(OtherPrefix, buildScope(ToParams(BaseCall)), OtherText)

\* the index entry the other instance upserted, with its variant's metadata
OtherEntry ==
    LET scope == buildScope(ToParams(BaseCall))
    IN  [vector |-> Embed(OtherText),
         metadata |->
            IF variant = "llm"
            THEN [intent |-> Flat(OtherText),
                  domain |-> Flat(JoinWith(ObjectIntent.domain, ",")),
                  stack |-> Flat(JoinWith(ObjectIntent.stack, ",")),
                  goal |-> Flat(ObjectIntent.goal),
                  llmModel |-> scope.llmModel, systemHash |-> scope.systemHash,
                  params |-> scope.params, toolsHash |-> scope.toolsHash]
            ELSE [prompt |-> Flat(OtherText), llmModel |-> scope.llmModel,
                  systemHash |-> scope.systemHash, params |-> scope.params,
                  toolsHash |-> scope.toolsHash]]

\* the payload the other instance's stream write-back stored
OtherPayloads == {[streamParts |-> SubSeq(StreamHello, 1, Min(Len(StreamHello), MaxChunks))]}

InitShared ==
    /\ variant \in Variants
    /\ cacheMode = "default"
    /\ factory = ReadyFactory
    /\ req = [r \in Requests |-> IdleRequest]
    /\ \E data \in OtherPayloads :
          /\ kv = (OtherId :> Serialize(data))
          /\ prov = (OtherId :> [call |-> BaseCall, data |-> data, by |-> "other variant"])
    /\ locks = {}
    /\ index = (OtherId :> OtherEntry) @@ SeedIndex
    /\ text = NoText

SpecShared == InitShared /\ [][Next]_vars

\* ------------------------------------------------------------------------
\* Providers that report a failure inside the stream
\* ------------------------------------------------------------------------

\* a provider stream that reports a failure as a stream part of type
\* "error" and then ends normally
StreamFailing == <<TextDelta("1", "Hi"), [Chunk("error") EXCEPT !.delta = "overloaded"],
    [Chunk("finish") EXCEPT !.finishReason = "error"]>>

FailingStreams == {SubSeq(StreamFailing, 1, Min(Len(StreamFailing), MaxChunks))}

\* await doStream() settles with a stream in which the provider will report
\* a failure
DoStreamFailing(r) ==
    /\ req[r].pc = "provider"
    /\ req[r].op = "stream"
    /\ \E st \in FailingStreams :
          Update(r, [req[r] EXCEPT !.pc = "streaming", !.provider = st,
                  !.calledProvider = TRUE])
    /\ StoresUnchanged /\ ConfigUnchanged

InitFailing ==
    /\ variant \in Variants
    /\ cacheMode = "default"
    /\ req = [r \in Requests |-> IdleRequest]
    /\ kv = [id \in {} |-> Null]
    /\ locks = {}
    /\ index = SeedIndex
    /\ prov = [id \in {} |-> Null]
    /\ factory = ReadyFactory
    /\ text = NoText

NextFailing == Next \/ \E r \in Requests : DoStreamFailing(r)

SpecFailing == InitFailing /\ [][NextFailing]_vars

\* ------------------------------------------------------------------------
\* Properties
\* ------------------------------------------------------------------------

\* the requests whose lookup has returned a payload and that are being served
\* from it
Serving == {r \in Requests : req[r].pc \in {"route", "replay"} /\ Truthy(req[r].cached)}

\* C1: a lookup returns a cached payload only for a candidate of the query
\* result whose score is at least the threshold, whose metadata is not null
\* and whose llmModel, systemHash, params and toolsHash equal the call's
\* scope; the payload is the one stored under that candidate's id.
C1_HitOnlyOnThresholdAndScope ==
    \A r \in Serving :
        LET m == req[r].hit
            scope == buildScope(ToParams(req[r].call))
        IN  /\ m # Null
            /\ m.score >= Threshold
            /\ m.metadata # Null
            /\ m.metadata.llmModel = scope.llmModel
            /\ m.metadata.systemHash = scope.systemHash
            /\ m.metadata.params = scope.params
            /\ m.metadata.toolsHash = scope.toolsHash
            /\ req[r].pc = "route" =>
                  \E i \in 1..Len(req[r].queryResult) : req[r].queryResult[i] = m

\* a hit on a candidate whose score equals the threshold, found after a
\* candidate of higher score was passed over
C1_Witness ==
    \E r \in Requests :
        /\ req[r].pc = "route"
        /\ Truthy(req[r].cached)
        /\ req[r].hit.score = Threshold
        /\ req[r].queryResult[1] # req[r].hit

\* C2: with cacheMode "default", a request whose lookup returned a payload
\* never calls doStream / doGenerate; it replays the payload (stream) or
\* returns it (generate) and ends.
C2_HitReplaysWithoutProvider ==
    [][\A r \in Requests :
          (cacheMode = "default" /\ req[r].pc \in {"route", "replay"} /\ Truthy(req[r].cached)) =>
              /\ ~req'[r].calledProvider
              /\ req'[r].pc \in {"route", "replay", "done"}
              /\ (req[r].pc = "route" /\ req'[r].pc = "replay") =>
                    req'[r].provider = ReplayChunks(req[r].cached)
              /\ (req[r].pc = "route" /\ req'[r].pc = "done") =>
                    req'[r].returned = ReplayResult(req[r].cached)]_vars

\* a generate request that ended on a payload of the cache without a
\* provider call, in default mode
C2_Witness ==
    \E r \in Requests :
        /\ cacheMode = "default"
        /\ req[r].pc = "done"
        /\ req[r].op = "generate"
        /\ ~req[r].calledProvider
        /\ Truthy(req[r].returned)

\* the steps of a write-back, and the part of it between the NX set that
\* acquired the lock and the delete that releases it
WriteBackSteps == {"lock", "set", "upsert", "del"}

\* C3: on a miss the capture transform hands the consumer the provider's
\* chunks, each one unchanged and in the provider's order, all of them by
\* the time the stream ends, and nothing else; a generate call that returns
\* after a miss returns the provider's result.
C3_MissPassesProviderThrough ==
    [][\A r \in Requests :
          /\ (req[r].pc = "provider" /\ req'[r].pc = "streaming") =>
                req'[r].delivered = <<>> /\ req'[r].provider \in ProviderStreams
          /\ (req[r].pc = "streaming" /\ req'[r].pc \in {"streaming", "lock"}) =>
                req'[r].delivered \o req'[r].provider = req[r].delivered \o req[r].provider
          /\ (req[r].pc = "streaming" /\ req'[r].pc = "lock") => req'[r].provider = <<>>
          /\ (req[r].pc \in WriteBackSteps /\ req'[r].pc \in WriteBackSteps) =>
                req'[r].delivered = req[r].delivered /\ req'[r].genResult = req[r].genResult
          /\ (req[r].pc = "provider" /\ req'[r].pc = "lock") =>
                req'[r].genResult \in ProviderResults
          /\ (req[r].op = "generate" /\ req[r].pc \in WriteBackSteps /\ req'[r].pc = "done") =>
                req'[r].returned = req[r].genResult]_vars

\* a missed stream request whose provider stream has ended, the consumer
\* holding its chunks, one of unknown type among them
C3_Witness ==
    \E r \in Requests :
        /\ req[r].pc = "lock"
        /\ req[r].op = "stream"
        /\ ~Truthy(req[r].cached)
        /\ req[r].delivered \in ProviderStreams
        /\ \E i \in 1..Len(req[r].delivered) : req[r].delivered[i].type = "raw"

\* the chunks a replaying request hands out in all: those delivered so far
\* followed by those still to come
Replayed(r) == req[r].delivered \o req[r].provider

\* the payloads a request's stream write-back stored
CapturedBy(src) == src # Null /\ src.by \in Requests /\ "streamParts" \in DOMAIN src.data

\* C4: the stream replayed from a payload {streamParts} that a write-back
\* stored is, chunk for chunk, the sequence captured on that miss: same
\* length, same order, response-metadata timestamps being timestamp values
\* again, and no chunk after the last captured one.
C4_ReplayEqualsCapture ==
    \A r \in Requests :
        (req[r].pc = "replay" /\ CapturedBy(req[r].source)) =>
            LET captured == req[r].source.data.streamParts
            IN  /\ Len(Replayed(r)) = Len(captured)
                /\ \A i \in 1..Len(captured) : Replayed(r)[i] = captured[i]

\* a replay that has handed out its last chunk: the capture started with a
\* response-metadata chunk carrying a timestamp and had no finish chunk
C4_Witness ==
    \E r \in Requests :
        /\ req[r].pc = "replay"
        /\ CapturedBy(req[r].source)
        /\ req[r].provider = <<>>
        /\ Len(req[r].delivered) > 1
        /\ req[r].delivered[1].type = "response-metadata"
        /\ req[r].delivered[1].timestamp.ts = "date"
        /\ \A i \in 1..Len(req[r].delivered) : req[r].delivered[i].type # "finish"

\* request first missed on a stream call and its write-back went through;
\* request again then repeats the call with the same scope and text, the
\* stored payload is still live and the index returned the stored entry at a
\* score of at least the threshold
ExactReask(first, again) ==
    /\ first # again
    /\ req[first].pc = "done" /\ req[first].op = "stream" /\ req[first].calledProvider
    /\ req[first].ok = "yes" /\ req[first].didSet /\ req[first].didUpsert
    /\ req[again].pc \in {"route", "replay"}
    /\ req[again].op = "stream"
    /\ req[again].call = req[first].call
    /\ IdOf(again) = IdOf(first)
    /\ IdOf(again) \in DOMAIN kv
    /\ prov[IdOf(again)].by = first
    /\ \E i \in 1..Len(req[again].queryResult) :
          /\ req[again].queryResult[i].id = IdOf(again)
          /\ req[again].queryResult[i].score >= Threshold

\* C5: an exact re-ask is a hit, and the text-delta concatenation of its
\* replay equals that of the response the first request received.
C5_ExactReaskHits ==
    \A first, again \in Requests :
        ExactReask(first, again) =>
            LET original == prov[IdOf(again)].data.streamParts
            IN  /\ Truthy(req[again].cached)
                /\ TextOf(ReplayChunks(req[again].cached)) = TextOf(original)
                /\ req[again].pc = "replay" => TextOf(Replayed(again)) = TextOf(original)

\* an exact re-ask whose replay has handed out the whole text "Hello"
C5_Witness ==
    \E first, again \in Requests :
        /\ ExactReask(first, again)
        /\ req[again].pc = "replay"
        /\ req[again].provider = <<>>
        /\ TextOf(req[again].delivered) = "Hello"

\* C6: a writer whose NX set of the lock key was refused has set no payload,
\* upserted no index entry and deleted no lock key, and has returned to its
\* caller without an error (the generate path with the provider's result).
C6_RefusedWriterTouchesNothing ==
    \A r \in Requests :
        req[r].ok = "no" =>
            /\ req[r].pc = "done"
            /\ ~req[r].didSet /\ ~req[r].didUpsert /\ ~req[r].didDel
            /\ ~req[r].storeError
            /\ req[r].op = "generate" => req[r].returned \in ProviderResults

\* a refused writer that has returned while the other request holds the lock
C6_Witness ==
    \E r, o \in Requests :
        /\ req[r].ok = "no"
        /\ req[r].pc = "done"
        /\ HoldsLock(o)
        /\ IdOf(o) = IdOf(r)

\* both requests ran concurrently and both got as far as the NX set of the
\* lock key of one and the same id
RacedForLock(a, b) ==
    /\ a # b
    /\ req[a].overlaps \/ req[b].overlaps
    /\ req[a].ok # "none" /\ req[b].ok # "none"
    /\ IdOf(a) = IdOf(b)

Performed(r) == req[r].didSet /\ req[r].didUpsert

C8_WritesSerializedPerId ==
    \A a, b \in Requests :
        (a # b /\ HoldsLock(a) /\ HoldsLock(b)) => IdOf(a) # IdOf(b)

\* the call whose write-back stored the payload a request is served from
StoredBy(r) == req[r].source.call

\* C9: a request is never served from an entry that a call with another
\* temperature or another topP stored; such an entry is rejected whatever
\* its score.
C9_ParamsNeverShared ==
    \A r \in Serving :
        StoredBy(r) # Null =>
            /\ StoredBy(r).temperature = req[r].call.temperature
            /\ StoredBy(r).topP = req[r].call.topP

\* a lookup that returned miss although the index returned, at a score of 99
\* or more, an entry stored by a call that differs only in temperature or topP
C9_Witness ==
    \E r \in Requests :
        /\ req[r].pc = "route"
        /\ ~Truthy(req[r].cached)
        /\ req[r].hit = Null
        /\ \E i \in 1..Len(req[r].queryResult) :
              LET m == req[r].queryResult[i]
              IN  /\ m.score >= 99
                  /\ m.id \in DOMAIN prov
                  /\ prov[m.id].by \in Requests
                  /\ prov[m.id].call # req[r].call
                  /\ [prov[m.id].call EXCEPT !.temperature = req[r].call.temperature,
                                             !.topP = req[r].call.topP] = req[r].call

\* C10: a request is never served from an entry that a call to another
\* model, or with another system prompt, stored.
C10_ModelAndSystemNeverShared ==
    \A r \in Serving :
        StoredBy(r) # Null =>
            /\ StoredBy(r).model = req[r].call.model
            /\ StoredBy(r).system = req[r].call.system

\* the payload the store holds for what request r captured from the provider
CapturedPayload(r) ==
    IF req[r].op = "stream"
    THEN Serialize([streamParts |-> req[r].delivered])
    ELSE Serialize(req[r].genResult)

\* request r, in refresh mode, was handed the payload of the entry stored
\* under its own id (same scope, same text)
RefreshOnOwnEntry(r) ==
    /\ cacheMode = "refresh"
    /\ req[r].pc \notin {"idle", "done", "failed"}
    /\ Truthy(req[r].cached)
    /\ req[r].hit.id = IdOf(r)

\* C11: in refresh mode a request whose lookup found the entry stored under
\* its own id never replays: it calls the provider, captures the response,
\* goes on to the write-back when the provider is through, and the payload
\* set of that write-back leaves the captured response under that id.
C11_RefreshOverwrites ==
    [][\A r \in Requests :
          RefreshOnOwnEntry(r) =>
              /\ req'[r].pc # "replay"
              /\ req[r].pc = "route" => req'[r].pc \in {"route", "provider"}
              /\ (req[r].pc = "provider" /\ req'[r].pc # "provider") => req'[r].calledProvider
              /\ (req[r].pc = "streaming" /\ req'[r].pc \notin {"streaming", "failed"}) =>
                    req'[r].pc = "lock" /\ req[r].provider = <<>>
              /\ (req[r].pc = "provider" /\ req'[r].pc \notin {"provider", "streaming", "failed"}) =>
                    req'[r].pc = "lock"
              /\ (req[r].pc = "set" /\ req'[r].didSet) =>
                    /\ IdOf(r) \in DOMAIN kv'
                    /\ kv'[IdOf(r)] = CapturedPayload(r)]_vars

\* a refresh request past its payload set: the store holds the response it
\* captured, which is not the payload its lookup had found
C11_Witness ==
    \E r \in Requests :
        /\ RefreshOnOwnEntry(r)
        /\ req[r].pc = "upsert"
        /\ IdOf(r) \in DOMAIN kv
        /\ kv[IdOf(r)] = CapturedPayload(r)
        /\ kv[IdOf(r)] # req[r].cached

\* the positions of the query result whose candidate passes the score and
\* scope test of request r
QualifyingAt(r) ==
    {i \in 1..Len(req[r].queryResult) : Qualifies(req[r].queryResult[i], ScopeOf(r))}

\* request r's lookup picked a candidate whose payload the store does not hold
DanglingHit(r) ==
    /\ req[r].pc = "route"
    /\ req[r].hit # Null
    /\ req[r].cached = Null

\* C12: the candidate a lookup picks is the first of the query result, in
\* the order the index returned it, that passes the score and scope test; the
\* payload get that follows reads that candidate's id and no other; when the
\* store holds no payload under it the lookup returns a miss (no error) and
\* the request goes to the provider, without a second get, even when a later
\* candidate qualifies too.
C12_FirstQualifyingOnly ==
    [][\A r \in Requests :
          /\ (req'[r].pc \in {"get", "route"} /\ req'[r].hit # Null) =>
                \E i \in 1..Len(req'[r].queryResult) :
                    /\ req'[r].queryResult[i] = req'[r].hit
                    /\ Qualifies(req'[r].hit, buildScope(ToParams(req'[r].call)))
                    /\ \A j \in 1..(i - 1) :
                          ~Qualifies(req'[r].queryResult[j], buildScope(ToParams(req'[r].call)))
          /\ (req[r].pc = "get" /\ req'[r].pc \notin {"get", "failed"}) =>
                /\ req'[r].pc = "route"
                /\ req'[r].hit = req[r].hit
                /\ req'[r].cached = IF req[r].hit.id \in DOMAIN kv THEN kv[req[r].hit.id]
                                    ELSE Null
          /\ (req[r].pc = "route" /\ req'[r].pc # "route") =>
                /\ req'[r].pc # "get"
                /\ req[r].cached = Null => req'[r].pc = "provider"]_vars

\* a lookup that returned a miss on a dangling first candidate while a later
\* candidate of the same query result qualified too
C12_Witness ==
    \E r \in Requests :
        /\ DanglingHit(r)
        /\ req[r].hit.id \notin DOMAIN kv
        /\ \E i, j \in QualifyingAt(r) : i < j /\ req[r].queryResult[i] = req[r].hit

\* request r is on the live path after its lookup picked candidate X = hit.id
\* and found no payload under it
AfterDanglingHit(r) ==
    /\ req[r].pc \in {"route", "provider", "streaming", "lock", "set", "upsert", "del"}
    /\ req[r].hit # Null
    /\ req[r].cached = Null

\* C13 as stated: once the payload set of the write-back of a request whose
\* lookup met a dangling candidate X has succeeded, the payload store holds an
\* entry under X.
C13_DanglingRepaired ==
    [][\A r \in Requests :
          (AfterDanglingHit(r) /\ req[r].pc = "set" /\ req'[r].didSet) =>
              req[r].hit.id \in DOMAIN kv']_vars

\* C13 (amended): a request whose lookup met a dangling candidate X goes to the
\* provider, and the payload set of its write-back leaves the captured
\* response under the request's own id; X holds a payload afterwards exactly
\* when X is that id or another writer had stored under X meanwhile.
C13_RepairsOwnId ==
    [][\A r \in Requests :
          AfterDanglingHit(r) =>
              /\ (req[r].pc = "route" /\ req'[r].pc # "route") => req'[r].pc = "provider"
              /\ (req[r].pc = "set" /\ req'[r].didSet) =>
                    /\ IdOf(r) \in DOMAIN kv'
                    /\ kv'[IdOf(r)] = CapturedPayload(r)
                    /\ req[r].hit.id \in DOMAIN kv' <=>
                          (req[r].hit.id = IdOf(r) \/ req[r].hit.id \in DOMAIN kv)]_vars

\* a request past its payload set whose dangling candidate was the entry of
\* its own id: the store holds a payload under that id again
C13_Witness ==
    \E r \in Requests :
        /\ AfterDanglingHit(r)
        /\ req[r].pc = "upsert"
        /\ req[r].didSet
        /\ req[r].hit.id = IdOf(r)
        /\ req[r].hit.id \in DOMAIN kv
        /\ kv[req[r].hit.id] = CapturedPayload(r)

\* request r ended on an error of the provider: doStream / doGenerate rejected
\* or the provider stream errored
ProviderFailed(r) ==
    /\ req[r].pc = "failed"
    /\ req[r].calledProvider
    /\ req[r].ok = "none"

\* C14: a step in which the provider call or the provider stream fails ends
\* the request with the error and touches neither store; a request so ended
\* never asked for the lock and wrote nothing; flush() starts the write-back
\* of a stream only when the provider stream has closed after its last chunk,
\* and a write-back once started is not started again.
C14_ProviderFailureWritesNothing ==
    [][\A r \in Requests :
          /\ (req[r].pc \in {"provider", "streaming"} /\ req'[r].pc = "failed") =>
                /\ ProviderFailed(r)'
                /\ ~req'[r].storeError
                /\ ~req'[r].didSet /\ ~req'[r].didUpsert /\ ~req'[r].didDel
                /\ req'[r].returned = Null
                /\ UNCHANGED <<kv, locks, index>>
          /\ (req[r].op = "stream" /\ req[r].pc # "lock" /\ req'[r].pc = "lock") =>
                /\ req[r].pc = "streaming"
                /\ req[r].provider = <<>>
                /\ req[r].fullResponse = req[r].delivered
          /\ (req[r].op = "generate" /\ req[r].pc # "lock" /\ req'[r].pc = "lock") =>
                /\ req[r].pc = "provider"
                /\ req'[r].genResult \in ProviderResults
          /\ req[r].pc \in WriteBackSteps => req'[r].pc \notin {"provider", "streaming"}]_vars

\* a stream request ended by a provider error while the stores hold nothing
\* under its id and no lock is set
C14_Witness ==
    \E r \in Requests :
        /\ ProviderFailed(r)
        /\ req[r].op = "stream"
        /\ ~req[r].didSet /\ ~req[r].didUpsert
        /\ IdOf(r) \notin DOMAIN kv
        /\ IdOf(r) \notin DOMAIN index
        /\ locks = {}

\* the consumer of request r's stream has read its end: the readable side of
\* the capture TransformStream closes when the promise of flush() fulfils
ConsumerSeesEnd(r) == req[r].op = "stream" /\ req[r].pc = "done"

\* the consumer of request r's stream reads an error: the promise of flush()
\* rejected, or the provider stream errored
ConsumerSeesError(r) == req[r].op = "stream" /\ req[r].pc = "failed"

\* C15 as stated: the step in which the provider stream of a miss closes
\* lets the consumer read end-of-stream, and no later step of the write-back
\* (lock, payload set, upsert, lock release) makes the consumer read an error.
C15_WriteBackDetached ==
    [][\A r \in Requests :
          req[r].op = "stream" =>
              /\ (req[r].pc = "streaming" /\ req[r].provider = <<>>
                     /\ req'[r].pc \notin {"streaming", "failed"}) => ConsumerSeesEnd(r)'
              /\ req[r].pc \in WriteBackSteps => ~ConsumerSeesError(r)']_vars

\* C16 as stated: after a failed payload set or a failed upsert, the step that
\* releases the lock ends the request normally: the lock key is gone, the
\* generate operation returns the provider's result and the stream consumer
\* reads end-of-stream.
C16_StoreFailureNotSurfaced ==
    [][\A r \in Requests :
          (req[r].storeError /\ req[r].pc = "del" /\ req'[r].pc # "del") =>
              /\ LockKey(IdOf(r)) \notin locks'
              /\ req'[r].pc = "done"
              /\ req[r].op = "generate" => req'[r].returned = req[r].genResult
              /\ req[r].op = "stream" => ConsumerSeesEnd(r)']_vars

LookupSteps == {"embed", "query", "get"}

\* request r ended on an error of its lookup (embed, index query or payload get)
LookupFailed(r) ==
    /\ req[r].pc = "failed"
    /\ ~req[r].calledProvider
    /\ req[r].ok = "none"

\* C17: a lookup step either hands on what the collaborator answered or ends
\* the request with the error; a request so ended has not called the
\* provider, has not asked for the lock and has written to neither store, and
\* it takes no further step.
C17_LookupFailsClosed ==
    [][\A r \in Requests :
          /\ (req[r].pc \in LookupSteps /\ req'[r].pc = "failed") =>
                /\ LookupFailed(r)'
                /\ ~req'[r].storeError
                /\ ~req'[r].didSet /\ ~req'[r].didUpsert /\ ~req'[r].didDel
                /\ req'[r].returned = Null
                /\ UNCHANGED <<kv, locks, index>>
          /\ (req[r].pc = "get" /\ req'[r].pc = "route" /\ req[r].hit.id \in DOMAIN kv) =>
                req'[r].cached = kv[req[r].hit.id]
          /\ (req[r].pc \in LookupSteps /\ req'[r].pc \notin LookupSteps) =>
                req'[r].pc \in {"route", "failed"}
          /\ req[r].pc = "failed" => req'[r] = req[r]]_vars

\* a request ended by a lookup error although the store holds a payload under
\* its id: the provider was not called and no lock is set
C17_Witness ==
    \E r \in Requests :
        /\ LookupFailed(r)
        /\ IdOf(r) \in DOMAIN kv
        /\ LockKey(IdOf(r)) \notin locks

\* the object has the shape {intent, domain[], stack[], goal, constraints[]}
MatchesSchema(extracted) ==
    DOMAIN extracted = {"intent", "domain", "stack", "goal", "constraints"}

\* C18 as stated: the extraction step of a request never ends the request
\* with an error; it hands on either an intent of the shape {intent, domain[],
\* stack[], goal, constraints[]} or the fallback built from the last message.
C18_ExtractionNeverThrows ==
    [][\A r \in Requests :
          (req[r].pc = "extract" /\ req'[r].pc # "extract") =>
              /\ req'[r].pc = "embed"
              /\ \/ MatchesSchema(req'[r].extracted)
                 \/ req'[r].extracted = FallbackIntent(ToParams(req[r].call).prompt)]_vars

\* the index entries that were there before any request of this run
SeedIds == {ForeignId, EmbedPkgId, EarlierId}

\* request r set the payload of its id and did not upsert the index entry
\* (it is between the two steps, or its upsert failed)
SetWithoutUpsert(r) ==
    /\ req[r].pc \in {"upsert", "del", "done", "failed"}
    /\ req[r].didSet
    /\ ~req[r].didUpsert

\* C19 as stated: every id with a live payload has an index entry.
C19_PayloadHasIndexEntry ==
    \A id \in DOMAIN kv : id \in DOMAIN index

\* C19 (amended): the coupling runs the other way. Every index entry a
\* write-back upserted had its payload set before; a live payload without an
\* index entry belongs to a writer that set it and has not upserted, or
\* whose upsert failed.
C19_IndexFollowsPayload ==
    /\ \A id \in DOMAIN index \ SeedIds : id \in DOMAIN prov
    /\ \A id \in DOMAIN kv \ DOMAIN index :
          \E r \in Requests : IdOf(r) = id /\ SetWithoutUpsert(r)

\* a write-back whose upsert failed has ended and its payload is live with
\* no index entry under its id
C19_Witness ==
    \E r \in Requests :
        /\ req[r].pc = "failed"
        /\ SetWithoutUpsert(r)
        /\ req[r].storeError
        /\ IdOf(r) \in DOMAIN kv
        /\ IdOf(r) \notin DOMAIN index

\* the value a credential of the factory call takes: the one given, or the
\* environment variable when the store was left out
Credential(store, field) ==
    LET given == factory.config[store]
        envName == (IF store = "vector" THEN "VECTOR_REST_" ELSE "REDIS_REST_")
                   \o (IF field = "url" THEN "URL" ELSE "TOKEN")
    IN  IF given = Omitted THEN factory.env[envName] ELSE given[field]

\* the credentials of the factory call that are empty or missing
MissingCredentials ==
    {store \o "." \o field : <<store, field>> \in
        {c \in {"vector", "redis"} \X {"url", "token"} : Falsy(Credential(c[1], c[2]))}}

\* all four credentials are present and valid
AllPresentAndValid ==
    /\ IsUrl(Credential("vector", "url")) /\ IsToken(Credential("vector", "token"))
    /\ IsUrl(Credential("redis", "url")) /\ IsToken(Credential("redis", "token"))

\* C20 as stated: a factory call with an empty or missing credential has
\* thrown before the clients were made, and its error lists every missing
\* credential; a call with all four present and valid has returned the four
\* operations.
C20_ThrowsListingEveryMissing ==
    factory.pc \in {"returned", "thrown"} =>
        /\ MissingCredentials # {} =>
              /\ factory.pc = "thrown"
              /\ ~factory.clients
              /\ MissingCredentials \subseteq factory.error.lists
        /\ AllPresentAndValid =>
              /\ factory.pc = "returned"
              /\ factory.operations = Operations

\* candidate m has a score of at least the threshold, metadata, and the four
\* scope fields of scope S
InScope(m, S) ==
    /\ m.score >= Threshold
    /\ m.metadata # Null
    /\ "llmModel" \in DOMAIN m.metadata /\ m.metadata.llmModel = S.llmModel
    /\ "systemHash" \in DOMAIN m.metadata /\ m.metadata.systemHash = S.systemHash
    /\ "params" \in DOMAIN m.metadata /\ m.metadata.params = S.params
    /\ "toolsHash" \in DOMAIN m.metadata /\ m.metadata.toolsHash = S.toolsHash

\* the positions of request r's query result that hold such a candidate
InScopeAt(r) ==
    {i \in 1..Len(req[r].queryResult) : InScope(req[r].queryResult[i], ScopeOf(r))}

\* C21 as stated: a lookup that has returned hands on a payload if and only
\* if a candidate of its query result has a score of at least the threshold,
\* metadata, and the scope of the call.
C21_HitIffCandidateQualifies ==
    \A r \in Requests :
        req[r].pc = "route" => (Truthy(req[r].cached) <=> InScopeAt(r) # {})

\* C21 (amended): the lookup selects a candidate if and only if one of the
\* query result is in scope, and the one selected is the first such; it
\* hands on a payload if and only if the payload store holds one under the
\* selected candidate's id when the get is answered.
C21_HitIffFirstQualifyingIsLive ==
    [][\A r \in Requests :
          /\ req'[r].pc \in {"get", "route"} =>
                /\ req'[r].hit # Null <=>
                      \E i \in 1..Len(req'[r].queryResult) :
                          InScope(req'[r].queryResult[i], buildScope(ToParams(req'[r].call)))
                /\ req'[r].hit # Null =>
                      \E i \in 1..Len(req'[r].queryResult) :
                          /\ req'[r].queryResult[i] = req'[r].hit
                          /\ InScope(req'[r].hit, buildScope(ToParams(req'[r].call)))
                          /\ \A j \in 1..(i - 1) :
                                ~InScope(req'[r].queryResult[j],
                                         buildScope(ToParams(req'[r].call)))
                /\ req'[r].hit = Null => req'[r].cached = Null
          /\ (req[r].pc = "get" /\ req'[r].pc = "route") =>
                (Truthy(req'[r].cached) <=> req[r].hit.id \in DOMAIN kv)]_vars

\* a lookup that handed on a payload although the first candidate of its
\* query result was not in scope: a later candidate was
C21_Witness ==
    \E r \in Requests :
        /\ req[r].pc = "route"
        /\ Truthy(req[r].cached)
        /\ InScopeAt(r) # {}
        /\ \A i \in InScopeAt(r) : i >= 2

\* the id as a function of a scope S and a normalized text T alone
IdOfScopeAndText(S, T) ==
    Prefix \o sha(S.llmModel \o "|" \o S.systemHash \o "|" \o S.params \o "|"
                  \o S.toolsHash \o "|" \o Flat(T))

\* the scope and the normalized text request r's lookup used
LookupScope(r) == buildScope(ToParams(req[r].call))

LookupText(r) == norm(req[r].cacheInput)

\* the keys of the payload store / of the index that a step wrote
PayloadKeysWritten ==
    {id \in DOMAIN kv' : id \notin DOMAIN kv \/ kv'[id] # kv[id] \/ prov'[id] # prov[id]}

IndexKeysWritten ==
    {id \in DOMAIN index' : id \notin DOMAIN index \/ index'[id] # index[id]}

\* C22: the query of a request's lookup is made with the vector of its
\* normalized text T; the call and the text of a request do not change once
\* its lookup has started; the payload set of its write-back writes exactly
\* the key that is the function of its scope S and T, its upsert writes no
\* other key, and its lock is the lock of that key. Two writers with equal
\* (S, T) therefore write the same id.
C22_IdIsFunctionOfScopeAndText ==
    [][\A r \in Requests :
          /\ (req[r].pc = "query" /\ req'[r].pc \in {"get", "route"}) =>
                req'[r].queryResult \in QueryResults(index, Embed(LookupText(r)))
          /\ req[r].pc \notin {"idle", "extract"} =>
                /\ req'[r].call = req[r].call
                /\ req'[r].cacheInput = req[r].cacheInput
          /\ (req[r].pc = "lock" /\ req'[r].pc = "set") =>
                locks' = locks \cup {"lock:" \o IdOfScopeAndText(LookupScope(r), LookupText(r))}
          /\ (req[r].pc = "set" /\ req'[r].didSet) =>
                PayloadKeysWritten = {IdOfScopeAndText(LookupScope(r), LookupText(r))}
          /\ (req[r].pc = "upsert" /\ req'[r].didUpsert) =>
                /\ IndexKeysWritten \subseteq {IdOfScopeAndText(LookupScope(r), LookupText(r))}
                /\ IdOfScopeAndText(LookupScope(r), LookupText(r)) \in DOMAIN index'
                /\ index'[IdOfScopeAndText(LookupScope(r), LookupText(r))].vector
                      = Embed(LookupText(r))]_vars

\* two requests with equal scope and text, asked through different
\* operations, have both set a payload; the store holds one key for the two
C22_Witness ==
    \E a, b \in Requests :
        /\ a # b
        /\ req[a].didSet /\ req[b].didSet
        /\ req[a].op # req[b].op
        /\ LookupScope(a) = LookupScope(b)
        /\ LookupText(a) = LookupText(b)
        /\ DOMAIN prov = {IdOfScopeAndText(LookupScope(a), LookupText(a))}
        /\ prov[IdOfScopeAndText(LookupScope(a), LookupText(a))].by = b

\* the pieces that have an uppercase letter
Uppercase == DOMAIN LowerOf

\* C23: norm of a norm is that norm; a norm neither starts nor ends with
\* whitespace, has no piece with an uppercase letter, and its whitespace is
\* single spaces with no two adjacent.
C23_NormIdempotent ==
    /\ text.pc = "twice" => text.twice = text.once
    /\ text.pc \in {"once", "twice"} =>
          LET n == text.once
          IN  /\ n # <<>> => (n[1] \notin Whitespace /\ n[Len(n)] \notin Whitespace)
              /\ \A i \in 1..Len(n) : n[i] \notin Uppercase
              /\ \A i \in 1..Len(n) : n[i] \in Whitespace => n[i] = " "
              /\ \A i \in 1..(Len(n) - 1) : ~(n[i] \in Whitespace /\ n[i + 1] \in Whitespace)

\* norm was applied twice to a string with an uppercase word and a run of a
\* tab and another whitespace character inside: the result has one space there
C23_Witness ==
    /\ text.pc = "twice"
    /\ Len(text.x) = 4
    /\ text.x[1] \in Uppercase
    /\ text.x[2] = "\t" /\ text.x[3] \in Whitespace
    /\ text.x[4] = "agents"
    /\ text.once = <<LowerOf[text.x[1]], " ", "agents">>
    /\ text.twice = text.once

\* C24: in the ai-sdk-embed package with cacheMode "default", a request whose
\* lookup found a cached answer is served from it and the model is not run;
\* the model is run only by a request whose lookup found none
C24_CachedAnswerSkipsModel ==
    [][\A r \in Requests :
          (variant = "pkg" /\ cacheMode = "default"
             /\ req[r].pc = "route" /\ req'[r].pc # "route") =>
          IF Truthy(req[r].cached)
          THEN /\ ~req'[r].calledProvider
               /\ req'[r].pc = "replay" \/ req'[r].returned = req[r].cached
          ELSE req'[r].pc \in {"streaming", "provider"}]_vars

\* C25 as stated: the payload is set before the index entry is upserted, and
\* so a payload written by a write-back is never live without an index entry
C25_NoPayloadWithoutEntry ==
    /\ \A r \in Requests : req[r].pc = "upsert" => req[r].didSet
    /\ \A id \in DOMAIN prov : id \in DOMAIN kv => id \in DOMAIN index

\* C25 (amended): within one write-back the set of the payload has completed
\* before the upsert of the same id is issued, the index changes only by such
\* an upsert, and a writer whose set failed goes to the release of the lock
\* and never upserts. Nothing follows about what a reader can observe: both
\* an entry without a payload and a payload without an entry occur.
C25_SetCompletesBeforeUpsert ==
    [][\A r \in Requests :
          /\ req[r].pc = "upsert" => req[r].didSet /\ IdOf(r) \in DOMAIN prov
          /\ (req'[r].didUpsert /\ ~req[r].didUpsert) =>
                req[r].pc = "upsert" /\ req[r].didSet /\ IdOf(r) \in DOMAIN index'
          /\ (req[r].pc = "set" /\ req'[r].storeError) =>
                req'[r].pc = "del" /\ ~req'[r].didSet /\ kv' = kv
          /\ (req[r].storeError /\ ~req[r].didSet) =>
                req[r].pc \in {"del", "failed"} /\ ~req'[r].didUpsert
          /\ index' # index =>
                \E w \in Requests : req[w].pc = "upsert" /\ req[w].didSet
                    /\ DOMAIN index' = DOMAIN index \cup {IdOf(w)}]_vars

\* a writer whose set failed has released the lock and ended without an
\* upsert, while the other request's write-back set its payload and then
\* upserted its entry
C25_Witness ==
    \E r, w \in Requests :
        /\ req[r].pc = "failed" /\ req[r].storeError /\ req[r].didDel
        /\ ~req[r].didSet /\ ~req[r].didUpsert
        /\ req[w].pc = "done" /\ req[w].didSet /\ req[w].didUpsert

\* the lock key of request r's id is set in the store
LockKeySet(r) == req[r].pc # "idle" /\ LockKey(IdOf(r)) \in locks

\* C26: every lock a writer acquired is eventually released. The writer
\* reaches the del of its lock key after the set and the upsert whether they
\* succeeded or failed, and the del removes the key; when the writer stops
\* before its del the key goes at its expiry; once the key is gone the NX set
\* of a writer of the same id is answered OK.
C26_LockEventuallyReleased ==
    /\ [][\A r \in Requests :
             /\ (req[r].pc \in {"set", "upsert"} /\ req'[r].pc \notin {req[r].pc, "upsert"}) =>
                   req'[r].pc = "del" \/ (req'[r].pc = "failed" /\ ~req'[r].didDel)
             /\ (req[r].pc = "del" /\ req'[r].didDel) => LockKey(IdOf(r)) \notin locks'
             /\ (req[r].pc = "lock" /\ req'[r].pc # "lock" /\ LockKey(IdOf(r)) \notin locks) =>
                   req'[r].pc = "set" /\ LockKey(IdOf(r)) \in locks']_vars
    /\ \A r \in Requests : HoldsLock(r) ~> ~LockKeySet(r)

\* a writer stopped while it held the lock, the key has expired, and the
\* other request, a writer of the same id, has acquired it
C26_Witness ==
    \E r, w \in Requests :
        /\ req[r].pc = "failed" /\ req[r].ok = "yes" /\ ~req[r].didDel
        /\ r # w /\ IdOf(w) = IdOf(r)
        /\ HoldsLock(w)
        /\ LockKeySet(w)

\* the position a request of the middleware can move to from each position
\* of the lookup and of the live path ("done" and "failed" end the request)
OrderedSteps ==
    {<<"embed", "query">>, <<"query", "get">>, <<"query", "route">>, <<"get", "route">>,
     <<"route", "replay">>, <<"route", "provider">>, <<"provider", "streaming">>,
     <<"provider", "lock">>, <<"streaming", "lock">>}

\* C27: within one request of the middleware the embedding is computed
\* before the query is issued, the query has returned before the hit is
\* selected, the hit is selected before its payload is fetched; the provider
\* is called only after the lookup has returned; and the write-back starts
\* only once the provider's stream has terminated or its generate call has
\* returned.
C27_StepsInOrder ==
    [][\A r \in Requests :
          LET a == req[r].pc
              b == req'[r].pc
          IN  /\ (a \in {"embed", "query", "get", "route", "provider", "streaming"}
                   /\ b \notin {a, "done", "failed"}) => <<a, b>> \in OrderedSteps
              /\ (a = "embed" /\ b = "query") =>
                    req[r].queryResult = <<>> /\ req[r].hit = Null
              /\ (a = "query" /\ b \in {"get", "route"}) =>
                    /\ req'[r].queryResult # <<>>
                    /\ req'[r].hit = find(req'[r].queryResult, ScopeOf(r))
                    /\ b = "get" <=> req'[r].hit # Null
                    /\ req'[r].cached = Null
              /\ req'[r].cached # req[r].cached =>
                    (a = "get" /\ req[r].hit # Null) \/ b \in {"idle", "done", "failed"}
              /\ (req'[r].calledProvider /\ ~req[r].calledProvider) =>
                    a = "provider" /\ req[r].queryResult # <<>>
              /\ b = "lock" =>
                    \/ a = "lock"
                    \/ a = "streaming" /\ req[r].provider = <<>> /\ req[r].op = "stream"
                    \/ a = "provider" /\ req[r].op = "generate" /\ req'[r].genResult # Null
              /\ (a \in {"idle", "extract", "embed", "query", "get", "route", "replay",
                        "provider", "streaming"}) =>
                    (~req'[r].didSet /\ ~req'[r].didUpsert /\ req'[r].ok = "none")]_vars

\* a stream request whose lookup selected a hit and fetched no payload for it
\* has called the provider, the provider's stream has terminated, and the
\* request is at the start of its write-back
C27_Witness ==
    \E r \in Requests :
        /\ req[r].pc = "lock" /\ req[r].op = "stream"
        /\ req[r].hit # Null /\ req[r].cached = Null
        /\ req[r].calledProvider
        /\ req[r].provider = <<>> /\ req[r].fullResponse # <<>>

\* how many times a step was reported in a log
Count(log, step) == Cardinality({i \in DOMAIN log : log[i] = step})

\* every report of a step of A comes before every report of a step of B
Before(log, A, B) ==
    \A i, j \in DOMAIN log : (log[i] \in A /\ log[j] \in B) => i < j

\* C28: the steps reported for a request of the intent variant. An
\* "intent-extraction-start" is followed, once the extractor call has
\* settled, by exactly one of "intent-extraction-complete" and
\* "intent-extraction-error", all before the first "cache-check-start"; a
\* lookup that has returned has reported exactly one of "cache-hit" and
\* "cache-miss"; "generation-start" comes before "generation-complete",
\* which comes before "cache-store-start"; a writer that acquired the lock
\* reports exactly one of "cache-store-complete" and "cache-store-error"
\* after its "cache-store-start", a writer that lost it reports neither.
C28_StepsReportedInOrder ==
    \A r \in Requests :
        LET log == req[r].events
            pc == req[r].pc
            extractionEnds == Count(log, "intent-extraction-complete")
                              + Count(log, "intent-extraction-error")
            lookupEnds == Count(log, "cache-hit") + Count(log, "cache-miss")
            storeEnds == Count(log, "cache-store-complete") + Count(log, "cache-store-error")
        IN  /\ Count(log, "intent-extraction-start") = (IF pc = "idle" THEN 0 ELSE 1)
            /\ extractionEnds = (IF pc \in {"idle", "extract"} THEN 0 ELSE 1)
            /\ Before(log, {"intent-extraction-start"},
                      {"intent-extraction-complete", "intent-extraction-error"})
            /\ Before(log, {"intent-extraction-start", "intent-extraction-complete",
                            "intent-extraction-error"}, {"cache-check-start"})
            /\ pc \in {"idle", "extract", "embed", "query", "get"} => lookupEnds = 0
            /\ pc \in {"route", "replay", "provider", "streaming", "lock", "set",
                        "upsert", "del", "done"} => lookupEnds = 1
            /\ lookupEnds <= 1
            /\ Before(log, {"cache-check-start"}, {"cache-hit", "cache-miss"})
            /\ Count(log, "generation-start") <= 1
            /\ Count(log, "generation-complete") <= Count(log, "generation-start")
            /\ Count(log, "cache-store-start") = Count(log, "generation-complete")
            /\ Before(log, {"cache-hit", "cache-miss"}, {"generation-start"})
            /\ Before(log, {"generation-start"}, {"generation-complete"})
            /\ Before(log, {"generation-complete"}, {"cache-store-start"})
            /\ Before(log, {"cache-store-start"},
                      {"cache-store-complete", "cache-store-error"})
            /\ pc \in {"lock", "set", "upsert", "del"} => Count(log, "cache-store-start") = 1
            /\ req[r].ok = "yes" =>
                  storeEnds = (IF pc \in {"set", "upsert"} THEN 0 ELSE 1)
            /\ req[r].ok = "no" => storeEnds = 0 /\ Count(log, "cache-store-start") = 1
            /\ req[r].ok = "none" => storeEnds = 0
            /\ Count(log, "cache-store-error") = 1 <=> req[r].storeError
            /\ Count(log, "cache-store-complete") = 1 <=> req[r].didUpsert

\* one request acquired the lock and its write-back failed; the other
\* request, whose extraction fell back to the last message and whose lookup
\* missed, lost the lock
C28_Witness ==
    \E w, l \in Requests :
        /\ req[w].pc = "failed" /\ req[w].ok = "yes"
        /\ Count(req[w].events, "cache-store-start") = 1
        /\ Count(req[w].events, "cache-store-error") = 1
        /\ req[l].pc = "done" /\ req[l].ok = "no"
        /\ Count(req[l].events, "intent-extraction-error") = 1
        /\ Count(req[l].events, "cache-miss") = 1
        /\ Count(req[l].events, "cache-store-start") = 1

\* a payload with neither streamParts nor text
Unreplayable(cached) ==
    /\ "streamParts" \notin DOMAIN cached
    /\ "text" \notin DOMAIN cached \/ cached.text = ""

\* C29: a stream request of the middleware whose lookup returned a payload
\* with neither streamParts nor text goes on to the provider instead of
\* replaying
C29_UnreplayableHitGoesLive ==
    [][\A r \in Requests :
          (/\ req[r].pc = "route" /\ req'[r].pc # "route"
           /\ req[r].op = "stream"
           /\ UseCached(req[r].cached)
           /\ Unreplayable(req[r].cached)) => req'[r].pc = "provider"]_vars

\* a stored value that is a non-empty timestamp string
StoredTimestamp(t) == t.ts = "string" /\ t.iso # ""

\* C30: on a hit of the middleware, each stored part of type
\* response-metadata whose timestamp is a string is replayed with the
\* timestamp as a date of the same instant and every other stored part is
\* replayed as it is, in the stored order; a generate hit returns the payload
\* with response.timestamp as a date when it is a stored string and
\* everything else as stored. The instance's simulateStream settings take
\* no part in it.
C30_TimestampsRehydrated ==
    [][\A r \in Requests :
          (req[r].pc = "route" /\ req'[r].pc # "route" /\ UseCached(req[r].cached)) =>
          LET cached == req[r].cached
          IN  /\ (req[r].op = "stream" /\ "streamParts" \in DOMAIN cached) =>
                    /\ req'[r].pc = "replay"
                    /\ Len(req'[r].provider) = Len(cached.streamParts)
                    /\ \A i \in 1..Len(cached.streamParts) :
                          LET stored == cached.streamParts[i]
                          IN  req'[r].provider[i] =
                                IF stored.type = "response-metadata"
                                   /\ StoredTimestamp(stored.timestamp)
                                THEN [stored EXCEPT !.timestamp = TsDate(stored.timestamp.iso)]
                                ELSE stored
              /\ req[r].op = "generate" =>
                    /\ req'[r].pc = "done"
                    /\ req'[r].returned =
                          IF "response" \in DOMAIN cached
                             /\ StoredTimestamp(cached.response.timestamp)
                          THEN [cached EXCEPT !.response.timestamp =
                                    TsDate(cached.response.timestamp.iso)]
                          ELSE cached]_vars

\* a stream hit is replaying a payload that holds a response-metadata part
\* with a timestamp string next to parts without one, and the consumer has
\* received that part with a date
C30_Witness ==
    \E r \in Requests :
        /\ req[r].pc = "replay"
        /\ "streamParts" \in DOMAIN req[r].cached
        /\ \E i, j \in 1..Len(req[r].cached.streamParts) :
              /\ req[r].cached.streamParts[i].type = "response-metadata"
              /\ StoredTimestamp(req[r].cached.streamParts[i].timestamp)
              /\ req[r].cached.streamParts[j].type = "text-delta"
              /\ Len(req[r].delivered) >= i
              /\ req[r].delivered[i].timestamp = TsDate(req[r].cached.streamParts[i].timestamp.iso)

\* the three chunks that stand for a legacy payload
LegacyChunks(cached) ==
    <<[Chunk("text-start") EXCEPT !.id = cached.id],
      [Chunk("text-delta") EXCEPT !.id = cached.id, !.delta = cached.text],
      [Chunk("finish") EXCEPT !.finishReason = "stop", !.usage = cached.usage]>>

\* C31: a stream request whose lookup returned a payload of the legacy
\* shape { text, id, usage } without streamParts replays exactly three
\* chunks: text-start with the payload's id, text-delta with the payload's
\* text, finish with finishReason "stop" and the payload's usage
C31_LegacyPayloadReplayed ==
    [][\A r \in Requests :
          (/\ req[r].pc = "route" /\ req'[r].pc # "route"
           /\ req[r].op = "stream"
           /\ UseCached(req[r].cached)
           /\ {"text", "id", "usage"} \subseteq DOMAIN req[r].cached
           /\ "streamParts" \notin DOMAIN req[r].cached) =>
             /\ req'[r].pc = "replay"
             /\ req'[r].provider = LegacyChunks(req[r].cached)]_vars

\* the lines "role: content" of the last k messages of a conversation, in
\* their order
LastLines(messages, k) ==
    [i \in 1..k |-> ContextLine(messages[Len(messages) - k + i])]

\* C32: the conversation text handed to the extractor is built from exactly
\* the last min(windowSize, n) messages of an n-message prompt, in their
\* order, one "role: content" line per message, for any configured
\* windowSize
C32_WindowIsLastMessages ==
    \A r \in Requests :
        (text.pc = "extraction" /\ text.built[r]) =>
            LET n == Len(text.messages[r])
                k == Min(text.intentExtractor.windowSize, n)
            IN  /\ k >= 0
                /\ text.conversationContext[r] = JoinWith(LastLines(text.messages[r], k), "\n")

\* C40: the text sent to the extractor LLM contains the formatted window of
\* the conversation, also when intentExtractor.prompt is configured, and
\* two requests whose windows differ give the extractor different texts
Contains(hay, needle) ==
    \E i \in 0..(Len(hay) - Len(needle)) : SubSeq(hay, i + 1, i + Len(needle)) = needle

C40_PromptContainsWindow ==
    text.pc = "extraction" =>
        /\ \A r \in Requests :
              text.built[r] => Contains(text.extractionPrompt[r], text.conversationContext[r])
        /\ \A r, q \in Requests :
              (text.built[r] /\ text.built[q]
               /\ text.recentMessages[r] # text.recentMessages[q]) =>
                  text.extractionPrompt[r] # text.extractionPrompt[q]

\* the last message of the params a request's middleware call receives
LastPromptMessage(r) ==
    LET prompt == ToParams(req[r].call).prompt IN prompt[Len(prompt)]

\* C33: in the prompt variant with useFullMessages = false, the fingerprint
\* text a middleware request computes is the JSON of the role and content of
\* the last message of its params, so requests whose last messages differ
\* get different texts
C33_TextIsLastMessage ==
    /\ \A r \in Requests :
          (variant = "llm" /\ ~UseFullMessages /\ req[r].pc = "embed") =>
              req[r].cacheInput = JsonMessage(LastPromptMessage(r))
    /\ \A r, q \in Requests :
          (variant = "llm" /\ ~UseFullMessages
           /\ req[r].pc = "embed" /\ req[q].pc = "embed"
           /\ LastPromptMessage(r) # LastPromptMessage(q)) =>
              req[r].cacheInput # req[q].cacheInput

\* C34: in the ai-sdk-embed package the write-back of a streamText or
\* streamObject miss is running only once the live stream has terminated,
\* and the payload it sets holds every chunk of that stream in order
C34_WriteBackAfterStreamEnd ==
    [][\A r \in Requests :
          req'[r].op \in PkgStreamOps =>
              /\ req'[r].wb \in WriteBackSteps => req'[r].pc \in {"done", "failed"}
              /\ (req[r].wb = "set" /\ req'[r].wb = "upsert") =>
                    /\ req[r].provider = <<>>
                    /\ kv'[IdOf(r)].streamParts = Serialize(DataOf(r)).streamParts]_vars

\* C35: a middleware stream write-back starts only when the provider stream
\* has been captured from its first chunk to its normal end, the
\* { streamParts } payload it sets holds exactly that sequence, and a
\* request whose consumer cancelled before the provider stream ended takes
\* no lock and writes neither store
C35_NoPartialCapture ==
    [][\A r \in Requests :
          /\ (req'[r].op = "stream" /\ req'[r].pc \in WriteBackSteps) =>
                /\ req'[r].provider = <<>>
                /\ req'[r].fullResponse \in ProviderStreams
          /\ (req[r].pc = "set" /\ req'[r].pc = "upsert" /\ req[r].op = "stream") =>
                /\ kv'[IdOf(r)] = Serialize([streamParts |-> req[r].fullResponse])
                /\ req[r].fullResponse \in ProviderStreams
          /\ (req[r].pc = "streaming" /\ req'[r].returned = Cancelled) =>
                /\ kv' = kv /\ index' = index /\ locks' = locks
                /\ req'[r].pc = "failed"
                /\ req'[r].ok = "none" /\ ~req'[r].didSet /\ ~req'[r].didUpsert]_vars

\* one request's consumer cancelled after the provider stream had delivered
\* chunks and nothing was written for it, and the other request's stream
\* write-back has set a payload of three chunks
C35_Witness ==
    \E r, q \in Requests :
        /\ req[r].returned = Cancelled
        /\ req[r].calledProvider /\ ~req[r].didSet
        /\ req[q].op = "stream" /\ req[q].pc = "upsert"
        /\ IdOf(q) \in DOMAIN kv
        /\ Len(kv[IdOf(q)].streamParts) = 3

\* a request for which "cache-hit" was reported has reported no
\* "generation-start" and has not invoked the provider
HitThenNoGeneration(r) ==
    Count(req[r].events, "cache-hit") > 0 =>
        /\ Count(req[r].events, "generation-start") = 0
        /\ ~req[r].calledProvider
        /\ req[r].pc \notin {"provider", "streaming"}

\* C36 as stated: in every configuration, once "cache-hit" has been
\* reported for a request, no "generation-start" is reported and the
\* provider is not invoked for that request
C36_HitNeverGenerates == \A r \in Requests : HitThenNoGeneration(r)

\* C36: with cacheMode "default", once "cache-hit" has been reported for a
\* request, no "generation-start" is reported and the provider is not
\* invoked for that request; with cacheMode "refresh" the hit is reported
\* and the request goes to the provider all the same
C36_HitNeverGeneratesInDefaultMode ==
    cacheMode # "refresh" => \A r \in Requests : HitThenNoGeneration(r)

\* with cacheMode "default", a request has reported "cache-hit" and has
\* ended with the cached answer, without a call to the provider
C36_Witness ==
    \E r \in Requests :
        /\ cacheMode = "default"
        /\ Count(req[r].events, "cache-hit") = 1
        /\ req[r].pc = "done"
        /\ Truthy(req[r].returned)
        /\ ~req[r].calledProvider

\* C37: with the two variants' instances on one vector index and one payload
\* store, a lookup never returns a payload the other variant's instance
\* stored under its own id prefix
C37_NamespacesSeparate ==
    \A r \in Requests :
        (req[r].pc \in {"route", "replay"} /\ Truthy(req[r].cached)) =>
            /\ req[r].hit.id # OtherId
            /\ req[r].source.by # "other variant"

\* C38: with cacheMode "default", every step of a request that is being
\* served from the cache leaves the payload store, the index and the locks
\* as they are, and the request ends without having set a lock or a payload
\* or having upserted an entry
C38_ServedFromCacheWritesNothing ==
    [][\A r \in Requests :
          (/\ cacheMode = "default"
           /\ req[r].pc \in {"route", "replay"}
           /\ Truthy(req[r].cached)
           /\ req'[r] # req[r]) =>
              /\ UNCHANGED <<kv, index, locks, prov>>
              /\ req'[r].pc \notin WriteBackSteps
              /\ req'[r].ok = "none"
              /\ ~req'[r].didSet /\ ~req'[r].didUpsert /\ ~req'[r].didDel]_vars

\* a stream request has been served from the cache to the end of its replay
\* while the payload it replayed is still in the store, and it has taken no
\* lock and written nothing
C38_Witness ==
    \E r \in Requests :
        /\ cacheMode = "default"
        /\ req[r].pc = "done"
        /\ req[r].op = "stream"
        /\ ~req[r].calledProvider
        /\ req[r].ok = "none" /\ ~req[r].didSet /\ ~req[r].didUpsert
        /\ IdOf(r) \in DOMAIN kv

\* whether a sequence of chunks holds a chunk of type "error"
HasErrorChunk(chunks) == \E i \in DOMAIN chunks : chunks[i].type = "error"

\* C39: a captured stream that holds a chunk of type "error" is written to
\* neither store, and no request is served a replay that holds one
C39_ProviderFailureNotCached ==
    /\ \A id \in DOMAIN kv :
          "streamParts" \in DOMAIN kv[id] => ~HasErrorChunk(kv[id].streamParts)
    /\ \A r \in Requests :
          /\ (req[r].op = "stream" /\ req[r].pc \in {"upsert", "del"} /\ req[r].didUpsert) =>
                ~HasErrorChunk(req[r].fullResponse)
          /\ req[r].pc = "replay" => ~HasErrorChunk(req[r].delivered)

====
